---------------------------- MODULE Spec2Model ----------------------------
(***************************************************************************)
(* Firmware-staging engine of the MCUboot update handler                   *)
(* (mcubupdate_handler.cpp): the aligned block writer, the image header    *)
(* extractor, the persistent upgrade state record, the boot-time recovery  *)
(* routine, the integrity verifier and the Download / Apply / IsInstalled  *)
(* operations, together with the environment they run against (key-value  *)
(* store, secondary block device, bootloader, resets).                     *)
(*                                                                         *)
(* Scaling.  Bytes are a handful of two-digit strings, the image header is *)
(* HeaderSize bytes (magic at byte 1, version at byte 2), the default read *)
(* block FWU_READ_BLOCK_DEFSIZE and the device are a few bytes long.       *)
(* MBED_ASSERT is modelled as enabled: a failing assertion halts the       *)
(* device, which then only a reset leaves.  program() of the block device  *)
(* stores the bytes it is given; a byte copied from beyond the read block  *)
(* buffer has an indeterminate value.                                      *)
(***************************************************************************)
EXTENDS Integers, Sequences, FiniteSets, TLC

VARIABLES
    kv,         \* key-value store entry "ota_image_update_state": NoRecord or Stored(r)
    primary,    \* primary slot: [bytes, image_ok, id]; id is a ghost image identity
    boot,       \* bootloader trailer state: [pending, revert]
    dev,        \* secondary block device contents, a sequence of DevSize bytes
    geom,       \* secondary block device geometry: [read_size, program_size]
    secId,      \* ghost: identity of the image held by the secondary device
    otaCtx,     \* otaCtx_opaque: NoCtx or the OTA_OperationContext_t
    bdInits,    \* init() calls of the secondary device not yet matched by deinit()
    pc,         \* position of the agent
    wf,         \* workflow: [cancel, reboot, httpCancel]
    args,       \* arguments of the running operation: [file, criteria]
    result,     \* result of the running or last handler operation: [op, code]
    sent,       \* ghost: bytes of the chunks accepted by the current Download
    hist,       \* ghost history read by the properties
    faults,     \* number of injected environment failures so far
    stages,     \* number of Download operations that reached OTACtx_Reinit
    workers,    \* platform layer: the worker thread objects and the tasks given to them
    ext,        \* ExtensionManager: _contentHandlers and what its calls returned
    d2c,        \* D2C messaging: pending store, processing contexts, clock, transport
    threads     \* D2C messaging: the two kinds of mutex and the threads that take them

vars == <<kv, primary, boot, dev, geom, secId, otaCtx, bdInits, pc, wf, args, result,
          sent, hist, faults, stages, workers, ext, d2c, threads>>

\* The part of the state that belongs to the update agent around the handler.
agentVars == <<workers, ext, d2c, threads>>

\* The part of the state that belongs to the handler and the device.
deviceVars == <<kv, primary, boot, dev, geom, secId, otaCtx, bdInits, pc, wf, args, result,
                sent, hist, faults, stages>>

-----------------------------------------------------------------------------
(* Bounds of the model *)

DevSize == 6            \* size() of the secondary block device, in bytes
HeaderSize == 2         \* sizeof(struct image_header), scaled
MaxChunk == 3           \* longest chunk the transport delivers
MaxFaults == 1          \* injected environment failures per behaviour
MaxStages == 1          \* Download operations started per behaviour
MaxBoots == 2           \* resets of the device per behaviour
MaxUnit == 3            \* largest read size and program size of a device
MaxTasks == 2           \* calls of AsyncTaskCallback per behaviour
MaxCancels == 2         \* calls of MbedPlatformLayer::Cancel per behaviour
MaxHandlers == 4        \* ContentHandler objects created per behaviour
MaxMsgs == 2            \* messages submitted with ADUC_D2C_Message_SendAsync per behaviour
MaxTime == 1            \* seconds the clock advances per behaviour
MaxDelay == 1           \* longest delay a retry time calculation adds, in seconds
FATAL_ERROR_WAIT_TIME_SEC == 1  \* wait after a transport failure, scaled from 10
fallbackWaitTimeSec == 1        \* g_defaultRetryStrategy.fallbackWaitTimeSec, scaled from 30
FWU_READ_BLOCK_DEFSIZE == 2   \* default read block size (1024 in the source), scaled

-----------------------------------------------------------------------------
(* Values *)

Byte == {"00", "01", "02", "3d", "ff"}
IMAGE_MAGIC == "3d"             \* ih_magic of a valid header (one byte here)
EraseValue == "ff"              \* value of an erased byte of the device
ZeroVersion == "00"             \* struct image_version after memset 0

INSTALLEDCRITERIA_MAXCHAR == 64

LongCriteria == "xxxxxxxxxxxxxxxxxxxxxxxxxxxxxxxxxxxxxxxxxxxxxxxxxxxxxxxxxxxxxxxxx"
Criteria == {"v1.0", "v2.0"}
NoCriteria == "null"            \* workflow_get_installed_criteria returned NULL
CriteriaArg == Criteria \cup {"", NoCriteria, LongCriteria}

NoRecord == <<>>                \* kv_get finds no item of the record's size
Stored(r) == <<r>>              \* the store holds the full-size record r
Rec(store) == store[1]
NoCtx == <<>>                   \* otaCtx_opaque == nullptr

Min(a, b) == IF a < b THEN a ELSE b
Max(a, b) == IF a > b THEN a ELSE b

-----------------------------------------------------------------------------
(* OTA_NonVolatileImageUpgradeState_t, fields in layout order *)

ZeroRecord ==
    [stageVersion_valid |-> FALSE, stageVersion |-> ZeroVersion,
     installRebooted_valid |-> FALSE, installRebooted |-> FALSE,
     stageInstalledCriteria_valid |-> FALSE, stageInstalledCriteria |-> "",
     reserved |-> 0,
     persistentInstalledCriteria_valid |-> FALSE, persistentInstalledCriteria |-> ""]

\* A memset over the whole record in place of the partial one.
ClearAll(r) ==
    [r EXCEPT !.stageVersion_valid = FALSE, !.stageVersion = ZeroVersion,
              !.installRebooted_valid = FALSE, !.installRebooted = FALSE,
              !.stageInstalledCriteria_valid = FALSE, !.stageInstalledCriteria = "",
              !.reserved = 0,
              !.persistentInstalledCriteria_valid = FALSE,
              !.persistentInstalledCriteria = ""]

\* memset(&imageUpgradeState, 0, offsetof(..., reserved)): the fields laid out
\* before `reserved` are zeroed, `reserved` and what follows are kept.
ClearBeforeReserved(r) ==
    [r EXCEPT !.stageVersion_valid = FALSE, !.stageVersion = ZeroVersion,
              !.installRebooted_valid = FALSE, !.installRebooted = FALSE,
              !.stageInstalledCriteria_valid = FALSE, !.stageInstalledCriteria = ""]

\* Result of a record operation: its return value and the store afterwards.
Ret(ok, store) == [ok |-> ok, kv |-> store]

\* nvImgUpgSt_getAll: kv_get must succeed (gf: it fails) and return the full size.
nvImgUpgSt_getAll(store, gf) == (~gf) /\ store # NoRecord

\* nvImgUpgSt_setAll: kv_set of the whole record (sf: it fails, nothing is written).
nvImgUpgSt_setAll(store, r, sf) ==
    IF sf THEN Ret(FALSE, store) ELSE Ret(TRUE, Stored(r))

nvImgUpgSt_reset(store, includeReserved, gf, sf) ==
    IF includeReserved \/ ~nvImgUpgSt_getAll(store, gf)
    THEN nvImgUpgSt_setAll(store, ZeroRecord, sf)
    ELSE nvImgUpgSt_setAll(store, ClearBeforeReserved(Rec(store)), sf)

nvImgUpgSt_setStageVersion(store, stageVersion, gf, sf) ==
    IF ~nvImgUpgSt_getAll(store, gf) THEN Ret(FALSE, store)
    ELSE nvImgUpgSt_setAll(store,
            [Rec(store) EXCEPT !.stageVersion = stageVersion, !.stageVersion_valid = TRUE], sf)

nvImgUpgSt_setInstallRebooted(store, installRebooted, gf, sf) ==
    IF ~nvImgUpgSt_getAll(store, gf) THEN Ret(FALSE, store)
    ELSE nvImgUpgSt_setAll(store,
            [Rec(store) EXCEPT !.installRebooted = installRebooted,
                          !.installRebooted_valid = TRUE], sf)

\* nvImgUpgSt_setStageInstalledCriteria without the test of the length.
nvImgUpgSt_setStageInstalledCriteria_Unbounded(store, installedCriteria, gf, sf) ==
    IF ~nvImgUpgSt_getAll(store, gf) THEN Ret(FALSE, store)
    ELSE nvImgUpgSt_setAll(store,
            [Rec(store) EXCEPT !.stageInstalledCriteria = installedCriteria,
                          !.stageInstalledCriteria_valid = TRUE], sf)

nvImgUpgSt_setStageInstalledCriteria(store, installedCriteria, gf, sf) ==
    IF ~nvImgUpgSt_getAll(store, gf) THEN Ret(FALSE, store)
    ELSE IF Len(installedCriteria) > INSTALLEDCRITERIA_MAXCHAR THEN Ret(FALSE, store)
    ELSE nvImgUpgSt_setAll(store,
            [Rec(store) EXCEPT !.stageInstalledCriteria = installedCriteria,
                          !.stageInstalledCriteria_valid = TRUE], sf)

\* nvImgUpgSt_settleInstalledCriteria without the test of
\* stageInstalledCriteria_valid.
nvImgUpgSt_settleInstalledCriteria_Unguarded(store, gf, sf) ==
    IF ~nvImgUpgSt_getAll(store, gf) THEN Ret(FALSE, store)
    ELSE nvImgUpgSt_setAll(store,
            [Rec(store) EXCEPT !.persistentInstalledCriteria = Rec(store).stageInstalledCriteria,
                          !.persistentInstalledCriteria_valid = TRUE,
                          !.stageInstalledCriteria_valid = FALSE,
                          !.stageInstalledCriteria = ""], sf)

\* A settle that also closes the attempt by dropping installRebooted.
nvImgUpgSt_settleInstalledCriteria_Closing(store, gf, sf) ==
    IF ~nvImgUpgSt_getAll(store, gf) THEN Ret(FALSE, store)
    ELSE IF ~Rec(store).stageInstalledCriteria_valid THEN Ret(FALSE, store)
    ELSE nvImgUpgSt_setAll(store,
            [Rec(store) EXCEPT !.persistentInstalledCriteria = Rec(store).stageInstalledCriteria,
                          !.persistentInstalledCriteria_valid = TRUE,
                          !.stageInstalledCriteria_valid = FALSE,
                          !.stageInstalledCriteria = "",
                          !.installRebooted_valid = FALSE,
                          !.installRebooted = FALSE], sf)

nvImgUpgSt_settleInstalledCriteria(store, gf, sf) ==
    IF ~nvImgUpgSt_getAll(store, gf) THEN Ret(FALSE, store)
    ELSE IF ~Rec(store).stageInstalledCriteria_valid THEN Ret(FALSE, store)
    ELSE IF Len(Rec(store).stageInstalledCriteria) > INSTALLEDCRITERIA_MAXCHAR
         THEN Ret(FALSE, store)
    ELSE nvImgUpgSt_setAll(store,
            [Rec(store) EXCEPT !.persistentInstalledCriteria = Rec(store).stageInstalledCriteria,
                          !.persistentInstalledCriteria_valid = TRUE,
                          !.stageInstalledCriteria_valid = FALSE,
                          !.stageInstalledCriteria = ""], sf)

\* Header of an image held in a slot: magic at byte 1, version at byte 2.
ih_magic(bytes) == bytes[1]
ih_ver(bytes) == bytes[2]

\* nvImgUpgSt_installed without the comparison of stageVersion with the version
\* of the running image.
nvImgUpgSt_installed_AnyVersion(store, activeBytes, image_ok, gf, openFails, readFails) ==
    IF ~nvImgUpgSt_getAll(store, gf) THEN [ok |-> FALSE, confirmed |-> FALSE]
    ELSE IF ~Rec(store).installRebooted_valid \/ ~Rec(store).installRebooted
         THEN [ok |-> FALSE, confirmed |-> FALSE]
    ELSE IF ~Rec(store).stageVersion_valid THEN [ok |-> FALSE, confirmed |-> FALSE]
    ELSE IF openFails THEN [ok |-> FALSE, confirmed |-> FALSE]
    ELSE [ok |-> TRUE, confirmed |-> (~readFails /\ image_ok = "SET")]

\* nvImgUpgSt_installed: [ok, confirmed].  activeBytes is the primary slot,
\* image_ok the bootloader's flag of the primary slot, ff: flash_area_open or
\* boot_read_image_ok fails.
nvImgUpgSt_installed(store, activeBytes, image_ok, gf, openFails, readFails) ==
    IF ~nvImgUpgSt_getAll(store, gf) THEN [ok |-> FALSE, confirmed |-> FALSE]
    ELSE IF ~Rec(store).installRebooted_valid \/ ~Rec(store).installRebooted
         THEN [ok |-> FALSE, confirmed |-> FALSE]
    ELSE IF ~Rec(store).stageVersion_valid THEN [ok |-> FALSE, confirmed |-> FALSE]
    ELSE IF Rec(store).stageVersion # ih_ver(activeBytes) THEN [ok |-> FALSE, confirmed |-> FALSE]
    ELSE IF openFails THEN [ok |-> FALSE, confirmed |-> FALSE]
    ELSE [ok |-> TRUE, confirmed |-> (~readFails /\ image_ok = "SET")]

\* nvImgUpgSt_installRebooted: [ok, installRebooted]
nvImgUpgSt_installRebooted(store, gf) ==
    IF ~nvImgUpgSt_getAll(store, gf) THEN [ok |-> FALSE, installRebooted |-> FALSE]
    ELSE IF ~Rec(store).installRebooted_valid THEN [ok |-> FALSE, installRebooted |-> FALSE]
    ELSE [ok |-> TRUE, installRebooted |-> Rec(store).installRebooted]

\* nvImgUpgSt_persistentInstalledCriteria: [ok, installedCriteria]
nvImgUpgSt_persistentInstalledCriteria(store, installedCriteria_maxlen, gf) ==
    IF ~nvImgUpgSt_getAll(store, gf) THEN [ok |-> FALSE, installedCriteria |-> ""]
    ELSE IF ~Rec(store).persistentInstalledCriteria_valid
         THEN [ok |-> FALSE, installedCriteria |-> ""]
    ELSE IF Len(Rec(store).persistentInstalledCriteria) + 1 > installedCriteria_maxlen
         THEN [ok |-> FALSE, installedCriteria |-> ""]
    ELSE [ok |-> TRUE, installedCriteria |-> Rec(store).persistentInstalledCriteria]


-----------------------------------------------------------------------------
(* Secondary block device (mbed::BlockDevice) *)

ErasedDev == [i \in 1..DevSize |-> EraseValue]

\* BlockDevice::read(buf, addr, size): [rc, data]; rc is 0 or an error (here 1).
\* The address and size must be multiples of the read size and lie in the device.
bd_read(d, g, addr, size, fail) ==
    IF fail \/ addr % g.read_size # 0 \/ size % g.read_size # 0 \/ addr + size > Len(d)
    THEN [rc |-> 1, data |-> <<>>]
    ELSE [rc |-> 0, data |-> SubSeq(d, addr + 1, addr + size)]

\* BlockDevice::program(buf, addr, size): [rc, dev].  The address and size must be
\* multiples of the program size and lie in the device; the bytes are stored.
bd_program(d, g, buf, addr, size, fail) ==
    IF fail \/ addr % g.program_size # 0 \/ size % g.program_size # 0 \/ addr + size > Len(d)
    THEN [rc |-> 1, dev |-> d]
    ELSE [rc |-> 0,
          dev |-> [i \in 1..Len(d) |->
                     IF i > addr /\ i <= addr + size THEN buf[i - addr] ELSE d[i]]]

AlignDown(x, unit) == (x \div unit) * unit
AlignUp(x, unit) == ((x + unit - 1) \div unit) * unit

\* bd_read_program_unit: [rc, progunit]; rc is "ok", "fail" (the read failed) or
\* "assert" (an MBED_ASSERT failed).  The program unit is copied out of the read
\* block buffer of readblock_size bytes; a byte copied from beyond the end of
\* that buffer has an indeterminate value, junk.
bd_read_program_unit(d, g, progunit_size, readblock_size, offset, fail, junk) ==
    LET readblock_aligndown == AlignDown(offset, readblock_size)
        progunit_aligndown == AlignDown(offset, progunit_size)
        rd == bd_read(d, g, readblock_aligndown, readblock_size, fail)
        at == progunit_aligndown - readblock_aligndown
    IN  IF ~(readblock_size >= progunit_size) THEN [rc |-> "assert", progunit |-> <<>>]
        ELSE IF ~(progunit_aligndown >= readblock_aligndown)
             THEN [rc |-> "assert", progunit |-> <<>>]
        ELSE IF rd.rc # 0 THEN [rc |-> "fail", progunit |-> <<>>]
        ELSE [rc |-> "ok",
              progunit |-> [i \in 1..progunit_size |->
                              IF at + i <= readblock_size THEN rd.data[at + i] ELSE junk]]

\* memcpy(dst + at, src, n) on sequences
Splice(dst, at, src, n) ==
    [i \in 1..Len(dst) |-> IF i > at /\ i <= at + n THEN src[i - at] ELSE dst[i]]

-----------------------------------------------------------------------------
(* Aligned block writer: the second half of CombinedDownloadInstall *)

\* State threaded through the three programming phases: return code ("ok",
\* "fail", "assert"), device contents, fwu_offset and the data still to write.
Wr(rc, d, off, data) == [rc |-> rc, dev |-> d, off |-> off, data |-> data]

Drop(data, n) == SubSeq(data, n + 1, Len(data))

\* Device calls of one chunk, in order; failAt names the one that fails (0: none).
HeadRead == 1
HeadProgram == 2
MiddleProgram == 3
TailRead == 4
TailProgram == 5

\* "Program first data which doesn't align on program unit boundary"
ProgramFirst(w, g, P, R, failAt, junk) ==
    LET fwu_offset_alignup == AlignUp(w.off, P)
        fwu_todo == Min(fwu_offset_alignup - w.off, Len(w.data))
        ru == bd_read_program_unit(w.dev, g, P, R, w.off, failAt = HeadRead, junk)
        fwu_offset_first == AlignDown(w.off, P)
        fwu_data_first == Splice(ru.progunit, w.off - fwu_offset_first, w.data, fwu_todo)
        pr == bd_program(w.dev, g, fwu_data_first, fwu_offset_first, P, failAt = HeadProgram)
    IN  IF ~(P > fwu_todo) THEN Wr("assert", w.dev, w.off, w.data)
        ELSE IF fwu_todo = 0 THEN w
        ELSE IF ru.rc # "ok" THEN Wr(ru.rc, w.dev, w.off, w.data)
        ELSE IF pr.rc # 0 THEN Wr("fail", w.dev, w.off + fwu_todo, Drop(w.data, fwu_todo))
        ELSE Wr("ok", pr.dev, w.off + fwu_todo, Drop(w.data, fwu_todo))

\* "Program data which aligns on program unit boundary"
ProgramMiddle(w, g, P, failAt) ==
    LET fwu_todo == (Len(w.data) \div P) * P
        pr == bd_program(w.dev, g, w.data, w.off, fwu_todo, failAt = MiddleProgram)
    IN  IF w.rc # "ok" \/ fwu_todo = 0 THEN w
        ELSE IF pr.rc # 0 THEN Wr("fail", w.dev, w.off, w.data)
        ELSE Wr("ok", pr.dev, w.off + fwu_todo, Drop(w.data, fwu_todo))

\* The tail left for a later call instead of being programmed.
\* A last unit programmed without reading the device first: the bytes of the
\* unit past the data are zero.
ProgramLast_Blank(w, g, P, R, failAt, junk) ==
    LET fwu_todo == Len(w.data)
        fwu_data_last == [i \in 1..P |-> IF i <= fwu_todo THEN w.data[i] ELSE "00"]
        pr == bd_program(w.dev, g, fwu_data_last, w.off, P, failAt = TailProgram)
    IN  IF w.rc # "ok" \/ fwu_todo = 0 THEN w
        ELSE IF ~(P > fwu_todo) THEN Wr("assert", w.dev, w.off, w.data)
        ELSE IF pr.rc # 0 THEN Wr("fail", w.dev, w.off + fwu_todo, <<>>)
        ELSE Wr("ok", pr.dev, w.off + fwu_todo, <<>>)

ProgramLast_Deferred(w, g, P, R, failAt, junk) ==
    IF w.rc # "ok" THEN w ELSE Wr("ok", w.dev, w.off + Len(w.data), <<>>)

\* "Program last data which doesn't align on program unit boundary"
ProgramLast(w, g, P, R, failAt, junk) ==
    LET fwu_todo == Len(w.data)
        ru == bd_read_program_unit(w.dev, g, P, R, w.off, failAt = TailRead, junk)
        fwu_data_last == Splice(ru.progunit, 0, w.data, fwu_todo)
        pr == bd_program(w.dev, g, fwu_data_last, w.off, P, failAt = TailProgram)
    IN  IF w.rc # "ok" \/ fwu_todo = 0 THEN w
        ELSE IF ~(P > fwu_todo) THEN Wr("assert", w.dev, w.off, w.data)
        ELSE IF ru.rc # "ok" THEN Wr(ru.rc, w.dev, w.off, w.data)
        ELSE IF pr.rc # 0 THEN Wr("fail", w.dev, w.off + fwu_todo, <<>>)
        ELSE Wr("ok", pr.dev, w.off + fwu_todo, <<>>)

\* Lines 664-780: write dl_data at dl_prog.offset through program().
WriteThrough(d, g, P, R, offset, dl_data, failAt, junk) ==
    ProgramLast(
        ProgramMiddle(
            ProgramFirst(Wr("ok", d, offset, dl_data), g, P, R, failAt, junk),
            g, P, failAt),
        g, P, R, failAt, junk)

-----------------------------------------------------------------------------
(* OTA_OperationContext_t and the chunk callback *)

ZeroHeader == [i \in 1..HeaderSize |-> "00"]

\* The zero-initialised context with the device prepared by OTACtx_Reinit.
NewCtx(g) ==
    [active_header |-> ZeroHeader,
     image_header |-> ZeroHeader,
     secondary_bd_inited |-> TRUE,
     secondary_bd_progunit_size |-> g.program_size,
     secondary_bd_readblock_size |-> Max(FWU_READ_BLOCK_DEFSIZE, g.read_size),
     offset |-> 0, total_exp |-> 0, total_act |-> 0]

\* The header caught but its magic not examined.
CatchHeader_Ungated(ctx, store, dl_data, gf, sf) ==
    LET image_header_todo == Min(HeaderSize - ctx.offset, Len(dl_data))
        hdr == Splice(ctx.image_header, ctx.offset, dl_data, image_header_todo)
        ctx1 == [ctx EXCEPT !.image_header = hdr]
        sv == nvImgUpgSt_setStageVersion(store, ih_ver(hdr), gf, sf)
    IN  IF ~(ctx.offset < HeaderSize) THEN [code |-> "ok", ctx |-> ctx, kv |-> store]
        ELSE IF ctx.offset + image_header_todo # HeaderSize
             THEN [code |-> "ok", ctx |-> ctx1, kv |-> store]
        ELSE IF ~sv.ok THEN [code |-> "Failure", ctx |-> ctx1, kv |-> sv.kv]
        ELSE [code |-> "ok", ctx |-> ctx1, kv |-> sv.kv]

\* The header caught but its version not saved in the record.
CatchHeader_Unsaved(ctx, store, dl_data, gf, sf) ==
    LET image_header_todo == Min(HeaderSize - ctx.offset, Len(dl_data))
        hdr == Splice(ctx.image_header, ctx.offset, dl_data, image_header_todo)
        ctx1 == [ctx EXCEPT !.image_header = hdr]
    IN  IF ~(ctx.offset < HeaderSize) THEN [code |-> "ok", ctx |-> ctx, kv |-> store]
        ELSE IF ctx.offset + image_header_todo # HeaderSize
             THEN [code |-> "ok", ctx |-> ctx1, kv |-> store]
        ELSE IF ih_magic(hdr) # IMAGE_MAGIC
             THEN [code |-> "Failure", ctx |-> ctx1, kv |-> store]
        ELSE [code |-> "ok", ctx |-> ctx1, kv |-> store]

\* Lines 612-654: catch the MCUBOOT header on the fly.  [code, ctx, kv]; code is
\* "ok" when the chunk goes on to be written.
CatchHeader(ctx, store, dl_data, gf, sf) ==
    LET image_header_offset == ctx.offset
        image_header_todo == Min(HeaderSize - image_header_offset, Len(dl_data))
        hdr == Splice(ctx.image_header, image_header_offset, dl_data, image_header_todo)
        ctx1 == [ctx EXCEPT !.image_header = hdr]
        sv == nvImgUpgSt_setStageVersion(store, ih_ver(hdr), gf, sf)
    IN  IF ~(ctx.offset < HeaderSize) THEN [code |-> "ok", ctx |-> ctx, kv |-> store]
        ELSE IF image_header_offset + image_header_todo # HeaderSize
             THEN [code |-> "ok", ctx |-> ctx1, kv |-> store]
        ELSE IF ih_magic(hdr) # IMAGE_MAGIC
             THEN [code |-> "Failure", ctx |-> ctx1, kv |-> store]
        ELSE IF ~sv.ok THEN [code |-> "Failure", ctx |-> ctx1, kv |-> sv.kv]
        ELSE [code |-> "ok", ctx |-> ctx1, kv |-> sv.kv]

\* CombinedDownloadInstall without the tests of the return codes of the device.
\* A callback that runs the writer on the chunk whose header it has just refused.
\* A callback that counts the chunk whether or not the device took it.
CombinedDownloadInstall_Advancing(ctx, store, d, g, dl_data, gf, sf, failAt, junk) ==
    LET h == CatchHeader(ctx, store, dl_data, gf, sf)
        w == WriteThrough(d, g, h.ctx.secondary_bd_progunit_size,
                          h.ctx.secondary_bd_readblock_size, h.ctx.offset,
                          dl_data, failAt, junk)
        ctx1 == [h.ctx EXCEPT !.offset = h.ctx.offset + Len(dl_data)]
    IN  IF h.code # "ok"
        THEN [code |-> "Failure", ctx |-> h.ctx, kv |-> h.kv, dev |-> d]
        ELSE IF ~h.ctx.secondary_bd_inited
        THEN [code |-> "Failure", ctx |-> h.ctx, kv |-> h.kv, dev |-> d]
        ELSE IF w.rc = "assert"
        THEN [code |-> "assert", ctx |-> h.ctx, kv |-> h.kv, dev |-> w.dev]
        ELSE IF w.rc # "ok"
        THEN [code |-> "Failure", ctx |-> ctx1, kv |-> h.kv, dev |-> w.dev]
        ELSE [code |-> "Download_Success", ctx |-> ctx1, kv |-> h.kv, dev |-> w.dev]

CombinedDownloadInstall_Unshorted(ctx, store, d, g, dl_data, gf, sf, failAt, junk) ==
    LET h == CatchHeader(ctx, store, dl_data, gf, sf)
        w == WriteThrough(d, g, h.ctx.secondary_bd_progunit_size,
                          h.ctx.secondary_bd_readblock_size, h.ctx.offset,
                          dl_data, failAt, junk)
    IN  IF w.rc = "assert"
        THEN [code |-> "assert", ctx |-> h.ctx, kv |-> h.kv, dev |-> w.dev]
        ELSE IF h.code # "ok" \/ w.rc # "ok"
        THEN [code |-> "Failure", ctx |-> h.ctx, kv |-> h.kv, dev |-> w.dev]
        ELSE [code |-> "Download_Success",
              ctx |-> [h.ctx EXCEPT !.offset = h.ctx.offset + Len(dl_data)],
              kv |-> h.kv, dev |-> w.dev]

CombinedDownloadInstall_Unchecked(ctx, store, d, g, dl_data, gf, sf, failAt, junk) ==
    LET h == CatchHeader(ctx, store, dl_data, gf, sf)
        w == WriteThrough(d, g, h.ctx.secondary_bd_progunit_size,
                          h.ctx.secondary_bd_readblock_size, h.ctx.offset,
                          dl_data, failAt, junk)
    IN  IF h.code # "ok"
        THEN [code |-> "Failure", ctx |-> h.ctx, kv |-> h.kv, dev |-> d]
        ELSE IF ~h.ctx.secondary_bd_inited
        THEN [code |-> "Failure", ctx |-> h.ctx, kv |-> h.kv, dev |-> d]
        ELSE IF w.rc = "assert"
        THEN [code |-> "assert", ctx |-> h.ctx, kv |-> h.kv, dev |-> w.dev]
        ELSE [code |-> "Download_Success",
              ctx |-> [h.ctx EXCEPT !.offset = h.ctx.offset + Len(dl_data)],
              kv |-> h.kv, dev |-> w.dev]

\* MCUbUpdateHandlerImpl::CombinedDownloadInstall: [code, ctx, kv, dev]; code is
\* "Download_Success", "Failure" or "assert".
CombinedDownloadInstall(ctx, store, d, g, dl_data, gf, sf, failAt, junk) ==
    LET h == CatchHeader(ctx, store, dl_data, gf, sf)
        w == WriteThrough(d, g, h.ctx.secondary_bd_progunit_size,
                          h.ctx.secondary_bd_readblock_size, h.ctx.offset,
                          dl_data, failAt, junk)
    IN  IF h.code # "ok"
        THEN [code |-> "Failure", ctx |-> h.ctx, kv |-> h.kv, dev |-> d]
        ELSE IF ~h.ctx.secondary_bd_inited
        THEN [code |-> "Failure", ctx |-> h.ctx, kv |-> h.kv, dev |-> d]
        ELSE IF w.rc = "assert"
        THEN [code |-> "assert", ctx |-> h.ctx, kv |-> h.kv, dev |-> w.dev]
        ELSE IF w.rc # "ok"
        THEN [code |-> "Failure", ctx |-> h.ctx, kv |-> h.kv, dev |-> w.dev]
        ELSE [code |-> "Download_Success",
              ctx |-> [h.ctx EXCEPT !.offset = h.ctx.offset + Len(dl_data)],
              kv |-> h.kv, dev |-> w.dev]

-----------------------------------------------------------------------------
(* Integrity verifier *)

\* USHAResult over the bytes fed, and its Base64 encoding: both are one-to-one
\* on what they are given, the digest of a message is tagged with its algorithm.
ShaDigest(msg) == <<"sha256">> \o msg
Azure_Base64_Encode_Bytes(digest) == <<"b64">> \o digest
HashOf(image) == Azure_Base64_Encode_Bytes(ShaDigest(image))

\* The read loop with the whole last block given to USHAInput.
RECURSIVE ReadLoop_WholeLast(_, _, _, _, _, _, _, _)
ReadLoop_WholeLast(d, g, R, fwu_offset, fwu_rmn, fed, reads, readFail) ==
    LET fwu_todo == Min(fwu_rmn, R)
        rd == bd_read(d, g, fwu_offset, R, readFail = Len(reads) + 1)
        rds == Append(reads, [addr |-> fwu_offset, size |-> R])
    IN  IF fwu_rmn = 0 THEN [ok |-> TRUE, fed |-> fed, reads |-> reads]
        ELSE IF rd.rc # 0 THEN [ok |-> FALSE, fed |-> fed, reads |-> rds]
        ELSE IF fwu_todo < R
             THEN [ok |-> TRUE, fed |-> fed \o rd.data, reads |-> rds]
        ELSE ReadLoop_WholeLast(d, g, R, fwu_offset + fwu_todo, fwu_rmn - fwu_todo,
                                fed \o rd.data, rds, readFail)

\* Lines 845-909: the read loop.  [ok, fed, reads]: fed is what USHAInput was
\* given, reads the read() calls made, in order.
\* readFail: the n-th read() of the device fails (0: none).
RECURSIVE ReadLoop(_, _, _, _, _, _, _, _)
ReadLoop(d, g, R, fwu_offset, fwu_rmn, fed, reads, readFail) ==
    LET fwu_todo == Min(fwu_rmn, R)
        size == IF fwu_todo < R THEN R ELSE fwu_todo
        rd == bd_read(d, g, fwu_offset, size, readFail = Len(reads) + 1)
        rds == Append(reads, [addr |-> fwu_offset, size |-> size])
    IN  IF fwu_rmn = 0 THEN [ok |-> TRUE, fed |-> fed, reads |-> reads]
        ELSE IF rd.rc # 0 THEN [ok |-> FALSE, fed |-> fed, reads |-> rds]
        ELSE IF fwu_todo < R
             THEN [ok |-> TRUE, fed |-> fed \o SubSeq(rd.data, 1, fwu_todo),
                   reads |-> rds]
        ELSE ReadLoop(d, g, R, fwu_offset + fwu_todo, fwu_rmn - fwu_todo,
                      fed \o rd.data, rds, readFail)

\* VerifySignature without the comparison of the two digests.
VerifySignature_Uncompared(ctx, d, g, file, readFail) ==
    LET rl == ReadLoop(d, g, ctx.secondary_bd_readblock_size, 0, file.SizeInBytes,
                       <<>>, <<>>, readFail)
    IN  IF file.HashCount = 0 THEN TRUE
        ELSE IF file.hashType # "sha256" THEN FALSE
        ELSE rl.ok

\* MCUbUpdateHandlerImpl::VerifySignature: TRUE when it returns true.
\* file is the ADUC_FileEntity: [SizeInBytes, HashCount, hashType, hashValue].
VerifySignature(ctx, d, g, file, readFail) ==
    LET rl == ReadLoop(d, g, ctx.secondary_bd_readblock_size, 0, file.SizeInBytes,
                       <<>>, <<>>, readFail)
    IN  IF file.HashCount = 0 THEN TRUE
        ELSE IF file.hashType # "sha256" THEN FALSE
        ELSE IF ~rl.ok THEN FALSE
        ELSE file.hashValue = Azure_Base64_Encode_Bytes(ShaDigest(rl.fed))

-----------------------------------------------------------------------------
(* Boot-time recovery: Update_NVImgUpgSt_PostReboot, one operator per group of *)
(* lines that ends in a write.  failAt names the external call of the group    *)
(* that fails (0: none), in the order the group makes them.                    *)

\* The flag inverted on every run instead of being raised once.
PostReboot_IndicateRebooted_Toggled(store, failAt) ==
    LET q == nvImgUpgSt_installRebooted(store, failAt = 1)
    IN  IF q.ok
        THEN nvImgUpgSt_setInstallRebooted(store, ~q.installRebooted,
                                           failAt = 2, failAt = 3).kv
        ELSE store

\* Lines 99-103.  Calls: 1 kv_get, 2 kv_get, 3 kv_set.  The store afterwards.
PostReboot_IndicateRebooted(store, failAt) ==
    LET q == nvImgUpgSt_installRebooted(store, failAt = 1)
    IN  IF q.ok /\ ~q.installRebooted
        THEN nvImgUpgSt_setInstallRebooted(store, TRUE, failAt = 2, failAt = 3).kv
        ELSE store

\* The routine without its forced confirm.
PostReboot_Confirm_Skipped(store, prim, failAt) == prim.image_ok

\* The routine confirming the image without asking whether it is installed.
PostReboot_Confirm_Unasked(store, prim, failAt) ==
    IF prim.image_ok # "SET" /\ failAt # 4 THEN "SET" ELSE prim.image_ok

\* Lines 107-113.  Calls: 1 kv_get, 2 flash_area_open, 3 boot_read_image_ok,
\* 4 boot_set_confirmed.  The image_ok flag of the primary slot afterwards.
PostReboot_Confirm(store, prim, failAt) ==
    LET q == nvImgUpgSt_installed(store, prim.bytes, prim.image_ok,
                                  failAt = 1, failAt = 2, failAt = 3)
    IN  IF q.ok /\ ~q.confirmed /\ failAt # 4 THEN "SET" ELSE prim.image_ok

\* The routine taking the revert branch when the installed query fails.
PostReboot_Settle_Blind(store, prim, failAt) ==
    LET q == nvImgUpgSt_installed(store, prim.bytes, prim.image_ok,
                                  failAt = 1, failAt = 2, failAt = 3)
        st == nvImgUpgSt_settleInstalledCriteria(store, failAt = 4, failAt = 5)
    IN  IF q.ok /\ q.confirmed
        THEN [branch |-> "confirmed", kv |-> st.kv, settled |-> st.ok]
        ELSE [branch |-> "revert", kv |-> store, settled |-> FALSE]

\* Lines 116-120 and 122-124.  Calls: 1 kv_get, 2 flash_area_open,
\* 3 boot_read_image_ok, 4 kv_get, 5 kv_set.  [branch, kv]: branch is "confirmed"
\* (settle was called, reset follows), "revert" (reset and restart follow) or "none";
\* settled: nvImgUpgSt_settleInstalledCriteria returned true.
PostReboot_Settle(store, prim, failAt) ==
    LET q == nvImgUpgSt_installed(store, prim.bytes, prim.image_ok,
                                  failAt = 1, failAt = 2, failAt = 3)
        st == nvImgUpgSt_settleInstalledCriteria(store, failAt = 4, failAt = 5)
    IN  IF ~q.ok THEN [branch |-> "none", kv |-> store, settled |-> FALSE]
        ELSE IF q.confirmed
        THEN [branch |-> "confirmed", kv |-> st.kv, settled |-> st.ok]
        ELSE [branch |-> "revert", kv |-> store, settled |-> FALSE]

\* Lines 121 and 125.  Calls: 1 kv_get, 2 kv_set.
\* The reset of the record left out of the routine's last steps.
PostReboot_Reset_Kept(store, failAt) == store

PostReboot_Reset(store, failAt) ==
    nvImgUpgSt_reset(store, FALSE, failAt = 1, failAt = 2).kv

-----------------------------------------------------------------------------
(* Handler operations on the persistent record *)

IsNullOrEmpty(str) == str = NoCriteria \/ str = ""

\* IsInstalled without the comparison of the two strings.
IsInstalled_Uncompared(store, installedCriteria, failAt) ==
    LET q == nvImgUpgSt_persistentInstalledCriteria(store,
                 INSTALLEDCRITERIA_MAXCHAR + 1, failAt = 1)
    IN  IF IsNullOrEmpty(installedCriteria) THEN "Failure"
        ELSE IF ~q.ok THEN "IsInstalled_NotInstalled"
        ELSE "IsInstalled_Installed"

\* MCUbUpdateHandlerImpl::IsInstalled: the result code.  Call: 1 kv_get.
IsInstalled(store, installedCriteria, failAt) ==
    LET q == nvImgUpgSt_persistentInstalledCriteria(store,
                 INSTALLEDCRITERIA_MAXCHAR + 1, failAt = 1)
    IN  IF IsNullOrEmpty(installedCriteria) THEN "Failure"
        ELSE IF ~q.ok THEN "IsInstalled_NotInstalled"
        ELSE IF installedCriteria # q.installedCriteria THEN "IsInstalled_NotInstalled"
        ELSE "IsInstalled_Installed"

IsAducResultCodeFailure(code) == code = "Failure"

-----------------------------------------------------------------------------
(* Staging context life cycle *)

\* MCUbUpdateHandlerImpl::OTACtx_Deinit: [otaCtx, bdInits]
OTACtx_Deinit(ctxv, inits) ==
    [otaCtx |-> NoCtx,
     bdInits |-> IF ctxv # NoCtx /\ ctxv[1].secondary_bd_inited THEN inits - 1 ELSE inits]

\* OTACtx_Reinit without the erase of the secondary device.
OTACtx_Reinit_Unerased(ctxv, inits, store, d, g, failAt) ==
    LET de == OTACtx_Deinit(ctxv, inits)
        rs == nvImgUpgSt_reset(store, FALSE, failAt = 1, failAt = 2)
    IN  IF ~rs.ok \/ failAt = 3
        THEN [ok |-> FALSE, otaCtx |-> NoCtx, bdInits |-> de.bdInits,
              kv |-> rs.kv, dev |-> d, erased |-> FALSE]
        ELSE [ok |-> TRUE, otaCtx |-> <<NewCtx(g)>>, bdInits |-> de.bdInits + 1,
              kv |-> rs.kv, dev |-> d, erased |-> TRUE]

\* MCUbUpdateHandlerImpl::OTACtx_Reinit: [ok, otaCtx, bdInits, kv, dev, erased].
\* Calls: 1 kv_get, 2 kv_set (the record reset), 3 init(), 4 erase().
OTACtx_Reinit(ctxv, inits, store, d, g, failAt) ==
    LET de == OTACtx_Deinit(ctxv, inits)
        rs == nvImgUpgSt_reset(store, FALSE, failAt = 1, failAt = 2)
    IN  IF ~rs.ok
        THEN [ok |-> FALSE, otaCtx |-> NoCtx, bdInits |-> de.bdInits,
              kv |-> rs.kv, dev |-> d, erased |-> FALSE]
        ELSE IF failAt = 3
        THEN [ok |-> FALSE, otaCtx |-> NoCtx, bdInits |-> de.bdInits,
              kv |-> rs.kv, dev |-> d, erased |-> FALSE]
        ELSE IF failAt = 4
        THEN [ok |-> FALSE, otaCtx |-> NoCtx, bdInits |-> de.bdInits + 1,
              kv |-> rs.kv, dev |-> d, erased |-> FALSE]
        ELSE [ok |-> TRUE, otaCtx |-> <<NewCtx(g)>>, bdInits |-> de.bdInits + 1,
              kv |-> rs.kv, dev |-> ErasedDev, erased |-> TRUE]

-----------------------------------------------------------------------------
(* Images, file entities, initial state *)

\* An image: header (magic, version, padding) followed by its body.
MkImage(magic, ver, body) ==
    <<magic, ver>> \o [i \in 1..(HeaderSize - 2) |-> "00"] \o body

Images ==
    {MkImage(IMAGE_MAGIC, v, <<"02", "ff">>) : v \in {"01", "02"}}
    \cup {MkImage("00", "02", <<"02", "ff">>)}

\* A slot of DevSize bytes holding an image, erased after its end.
SlotOf(image) == [i \in 1..DevSize |-> IF i <= Len(image) THEN image[i] ELSE EraseValue]

FactoryImage == MkImage(IMAGE_MAGIC, "01", <<"00">>)

NoFile == [SizeInBytes |-> 0, HashCount |-> 0, hashType |-> "sha256", hashValue |-> <<>>]

\* The file entities of an update manifest that describes image.
FilesOf(image) ==
    {[SizeInBytes |-> Len(image), HashCount |-> n, hashType |-> t,
      hashValue |-> HashOf(image)] : n \in {0, 1}, t \in {"sha256"}}
    \cup {[SizeInBytes |-> Len(image), HashCount |-> 1, hashType |-> "md5",
           hashValue |-> HashOf(image)]}

\* The workflow's flags, and the platform layer's: its atomic flag
\* _IsCancellationRequested, whether its Apply is waiting for the handler, and
\* the code its last Apply returned.
FreshWf ==
    [cancel |-> FALSE, reboot |-> FALSE, httpCancel |-> FALSE,
     IsCancellationRequested |-> FALSE, applying |-> FALSE, reported |-> "none"]
NoArgs == [file |-> NoFile, criteria |-> NoCriteria]
NoResult == [op |-> "none", code |-> "none"]

NoSnapshot == [kv |-> NoRecord, image_ok |-> "UNSET", primId |-> 0]

InitHist ==
    [critId |-> 0,              \* image staged when the stage criteria was persisted
     digestOk |-> FALSE,        \* the running Download compared the digests: equal
     mismatch |-> FALSE,        \* the staged bytes do not have the expected digest
     chunkCode |-> "none",      \* code returned by the last chunk callback
     badHeader |-> FALSE,       \* a chunk completed a header with a wrong magic
     devFail |-> FALSE,         \* read() or program() failed in the last chunk
     svFail |-> FALSE,          \* the last chunk could not persist the stage version
     applyLog |-> <<>>,         \* steps performed by the running or last Apply
     oversized |-> FALSE,       \* the last Apply was given a criteria above the maximum
     boot0 |-> NoSnapshot,      \* record and flag when the recovery routine began
     bootFaults |-> 0,          \* faults injected before the recovery routine began
     runs |-> 0,                \* recovery runs begun since the last boot
     forced |-> 0,              \* the running run began after NVIC_SystemReset: 1
     cut |-> "",                \* where a restart cut the first recovery run
     vs |-> <<>>,               \* what the last VerifySignature read, fed and returned
     boots |-> 0,               \* resets of the device so far
     once |-> NoSnapshot,       \* record and flag before the last record operation
     fault |-> 0,               \* failing call of the last record operation
     settled |-> <<>>]          \* what was running when a criteria was settled

Snapshot == [kv |-> kv, image_ok |-> primary.image_ok, primId |-> primary.id]

TypeOK ==
    /\ kv = NoRecord \/ Len(kv) = 1
    /\ primary.image_ok \in {"SET", "UNSET", "BAD"}
    /\ Len(primary.bytes) = DevSize /\ Len(dev) = DevSize
    /\ boot \in [pending : BOOLEAN, revert : BOOLEAN]
    /\ otaCtx = NoCtx \/ Len(otaCtx) = 1
    /\ faults \in 0..MaxFaults /\ stages \in 0..MaxStages

(* The update agent around the handler *)

\* MbedPlatformLayer: the five static worker thread objects.  thread[w] is the
\* task (an index of tasks) the thread object of w was created for, 0 if none
\* was created yet; tasks lists every call of AsyncTaskCallback; cancels counts
\* the calls of Cancel.
WorkerTypes == {"Download", "Backup", "Install", "Apply", "Restore"}
NoWorkers == [thread |-> [w \in WorkerTypes |-> 0], tasks |-> <<>>, cancels |-> 0]

\* ExtensionManager: the update types asked for (the last one has no handler
\* in this build), and _contentHandlers with no entry (0: no entry for the
\* type), no ContentHandler object alive and no call made.
UpdateTypes == {"microsoft/steps:1", "nuvoton/mcubupdate:1", "vendor/unknown:1"}
SupportedTypes == {"microsoft/steps:1", "microsoft/update-manifest",
                   "microsoft/update-manifest:4", "microsoft/update-manifest:5",
                   "nuvoton/mcubupdate:1"}
NoExtensions == [contentHandlers |-> [u \in UpdateTypes |-> 0], created |-> 0,
                 live |-> {}, ret |-> <<>>]

\* D2C messaging.  A message is known by its content (0: NULL); the three
\* callbacks are present or not.  A zeroed message has the status of value 0.
MsgTypes == {0, 1}
NoMessage == [content |-> 0, status |-> "Pending", attempts |-> 0,
              responseCallback |-> FALSE, completedCallback |-> FALSE,
              statusChangedCallback |-> FALSE]
NoContext == [message |-> NoMessage, retries |-> 0, nextRetryTimeStampEpoch |-> 0]

\* D2C messaging before ADUC_D2C_Messaging_Init: the statics are zero.  owed
\* counts the responses the transport still has to deliver per type, next is
\* the content of the next message, and log is the ghost record of what
\* happened to each message.
NoD2C == [s_core_initialized |-> FALSE,
          s_pendingMessageStore |-> [t \in MsgTypes |-> NoMessage],
          s_messageProcessingContext |-> [t \in MsgTypes |-> NoContext],
          now |-> 0, owed |-> [t \in MsgTypes |-> 0], next |-> 1, log |-> <<>>]

\* The threads that call into D2C messaging, and what each is doing: the
\* function it is in (op), the lock statement it has come to (pc) and the
\* message type it works on (i).
MaxThreads == 3
Threads == 1..MaxThreads
IdleThread == [op |-> "idle", pc |-> "idle", i |-> 0]

\* s_pendingMessageStoreMutex (store) and the contexts' mutexes (ctx) with the
\* thread that owns each (0: none).  A context's mutex exists (alive) from
\* ADUC_D2C_Messaging_Init to ADUC_D2C_Messaging_Uninit.  halted: Mbed OS has
\* stopped the system on a fatal error.
NoThreads == [th |-> [x \in Threads |-> IdleThread],
              store |-> 0,
              ctx |-> [t \in MsgTypes |-> 0],
              alive |-> [t \in MsgTypes |-> FALSE],
              halted |-> FALSE]

\* The agent's subsystems before they are used.
AgentIdle ==
    /\ workers = NoWorkers
    /\ ext = NoExtensions
    /\ d2c = NoD2C
    /\ threads = NoThreads

-----------------------------------------------------------------------------
\* State after the device leaves the factory and starts for the first time.
InitCommon ==
    /\ AgentIdle
    /\ kv = NoRecord
    /\ primary \in [bytes : {SlotOf(FactoryImage)}, image_ok : {"SET", "UNSET"}, id : {0}]
    /\ boot = [pending |-> FALSE, revert |-> FALSE]
    /\ dev = ErasedDev
    /\ secId = -1
    /\ otaCtx = NoCtx
    /\ bdInits = 0
    /\ wf = FreshWf
    /\ args = NoArgs
    /\ result = NoResult
    /\ sent = <<>>
    /\ hist = [InitHist EXCEPT !.boot0 = Snapshot, !.runs = 1]
    /\ faults = 0
    /\ stages = 0
    /\ pc = "PostReboot_1"

Init ==
    /\ InitCommon
    /\ geom = [read_size |-> 1, program_size |-> 2]

-----------------------------------------------------------------------------
(* Environment: faults, workflow, bootloader, resets *)

\* An action in which the external call failAt fails uses up one fault.
FaultOK(failAt) == failAt = 0 \/ faults < MaxFaults
Charge(failAt) == faults' = IF failAt = 0 THEN faults ELSE faults + 1

\* MCUbUpdateHandlerImpl::Cancel: workflow_request_cancel succeeds or not.
CancelCode(ok) == IF ok THEN "Cancel_Success" ELSE "Cancel_UnableToCancel"

\* The agent's control thread requests cancellation of the workflow.
RequestCancel ==
    /\ pc \in {"idle", "sending", "Apply_2", "Apply_3"}
    /\ ~wf.cancel
    /\ wf' = [wf EXCEPT !.cancel = TRUE]
    /\ UNCHANGED agentVars
    /\ UNCHANGED <<kv, primary, boot, dev, geom, secId, otaCtx, bdInits, pc, args,
                   result, sent, hist, faults, stages>>

\* The agent starts a new workflow (a new deployment).
NewWorkflow ==
    /\ pc = "idle"
    /\ wf # FreshWf
    /\ wf' = FreshWf
    /\ args' = NoArgs /\ result' = NoResult
    /\ UNCHANGED agentVars
    /\ UNCHANGED <<kv, primary, boot, dev, geom, secId, otaCtx, bdInits, pc,
                   sent, hist, faults, stages>>

\* What the bootloader does with the slots on a start: [primary, dev, secId, boot].
\* A pending secondary image with a valid header is swapped in for a test run
\* (image_ok unset) or refused; an unconfirmed test image is reverted.
BootOutcomes ==
    LET stay == [primary |-> primary, dev |-> dev, secId |-> secId,
                 boot |-> [pending |-> FALSE,
                           revert |-> boot.revert /\ primary.image_ok # "SET"]]
        swap == [primary |-> [bytes |-> dev, image_ok |-> "UNSET", id |-> secId],
                 dev |-> primary.bytes, secId |-> primary.id,
                 boot |-> [pending |-> FALSE, revert |-> TRUE]]
        back == [primary |-> [bytes |-> dev, image_ok |-> "SET", id |-> secId],
                 dev |-> primary.bytes, secId |-> primary.id,
                 boot |-> [pending |-> FALSE, revert |-> FALSE]]
    IN  IF boot.pending
        THEN IF ih_magic(dev) = IMAGE_MAGIC THEN {swap, stay} ELSE {stay}
        ELSE IF boot.revert /\ primary.image_ok # "SET" /\ ih_magic(dev) = IMAGE_MAGIC
        THEN {back}
        ELSE {stay}

\* A reset of the device, requested (workflow reboot, NVIC_SystemReset) or not:
\* volatile state is lost, the bootloader runs, the recovery routine starts.
Reset ==
    /\ hist.boots < MaxBoots
    /\ \E o \in BootOutcomes :
         /\ primary' = o.primary /\ dev' = o.dev /\ secId' = o.secId /\ boot' = o.boot
         /\ hist' = [InitHist EXCEPT !.critId = hist.critId,
                        !.digestOk = hist.digestOk, !.settled = hist.settled,
                        !.boot0 = [kv |-> kv, image_ok |-> o.primary.image_ok,
                                   primId |-> o.primary.id],
                        !.bootFaults = faults, !.runs = 1,
                        !.forced = IF pc = "NVIC_SystemReset" THEN 1 ELSE 0,
                        !.boots = hist.boots + 1]
    /\ otaCtx' = NoCtx /\ bdInits' = 0
    /\ wf' = FreshWf /\ args' = NoArgs /\ result' = NoResult /\ sent' = <<>>
    /\ pc' = "PostReboot_1"
    /\ UNCHANGED agentVars
    /\ UNCHANGED <<kv, geom, faults, stages>>

-----------------------------------------------------------------------------
(* Boot-time recovery, step by step *)

PostReboot_1 ==
    /\ pc = "PostReboot_1"
    /\ \E failAt \in 0..3 :
         /\ FaultOK(failAt) /\ Charge(failAt)
         /\ kv' = PostReboot_IndicateRebooted(kv, failAt)
    /\ pc' = "PostReboot_2"
    /\ UNCHANGED agentVars
    /\ UNCHANGED <<primary, boot, dev, geom, secId, otaCtx, bdInits, wf, args, result,
                   sent, hist, stages>>

PostReboot_2 ==
    /\ pc = "PostReboot_2"
    /\ \E failAt \in 0..4 :
         /\ FaultOK(failAt) /\ Charge(failAt)
         /\ primary' = [primary EXCEPT !.image_ok = PostReboot_Confirm(kv, primary, failAt)]
    /\ pc' = "PostReboot_3"
    /\ UNCHANGED agentVars
    /\ UNCHANGED <<kv, boot, dev, geom, secId, otaCtx, bdInits, wf, args, result,
                   sent, hist, stages>>

PostReboot_3 ==
    /\ pc = "PostReboot_3"
    /\ \E failAt \in 0..5 :
         LET r == PostReboot_Settle(kv, primary, failAt)
         IN  /\ FaultOK(failAt) /\ Charge(failAt)
             /\ kv' = r.kv
             /\ pc' = CASE r.branch = "confirmed" -> "PostReboot_4"
                        [] r.branch = "revert" -> "PostReboot_5"
                        [] OTHER -> "main"
             /\ hist' = IF r.settled
                        THEN [hist EXCEPT !.settled =
                                 <<[staged |-> hist.critId, running |-> primary.id,
                                    image_ok |-> primary.image_ok]>>]
                        ELSE hist
    /\ UNCHANGED agentVars
    /\ UNCHANGED <<primary, boot, dev, geom, secId, otaCtx, bdInits, wf, args, result,
                   sent, stages>>

\* Line 121: the reset that follows the settle.
PostReboot_4 ==
    /\ pc = "PostReboot_4"
    /\ \E failAt \in 0..2 :
         /\ FaultOK(failAt) /\ Charge(failAt)
         /\ kv' = PostReboot_Reset(kv, failAt)
    /\ pc' = "main"
    /\ UNCHANGED agentVars
    /\ UNCHANGED <<primary, boot, dev, geom, secId, otaCtx, bdInits, wf, args, result,
                   sent, hist, stages>>

\* Line 125: the reset before the forced restart.
PostReboot_5 ==
    /\ pc = "PostReboot_5"
    /\ \E failAt \in 0..2 :
         /\ FaultOK(failAt) /\ Charge(failAt)
         /\ kv' = PostReboot_Reset(kv, failAt)
    /\ pc' = "NVIC_SystemReset"
    /\ UNCHANGED agentVars
    /\ UNCHANGED <<primary, boot, dev, geom, secId, otaCtx, bdInits, wf, args, result,
                   sent, hist, stages>>

\* The static constructors have run: main() starts and the agent is idle.
Main ==
    /\ pc = "main"
    /\ pc' = "idle"
    /\ hist' = [hist EXCEPT !.boot0 = NoSnapshot, !.bootFaults = 0, !.forced = 0]
    /\ UNCHANGED agentVars
    /\ UNCHANGED <<kv, primary, boot, dev, geom, secId, otaCtx, bdInits, wf, args, result,
                   sent, faults, stages>>

-----------------------------------------------------------------------------
(* Download *)

\* Lines 234-306: Download up to the start of the transfer.  fileCount and
\* fileOk are what workflow_get_update_files_count and workflow_get_update_file
\* return; failAt is the failing call of OTACtx_Reinit.
\* A Download that looks at the cancel flag only after it has rebuilt the
\* context.
DownloadStart_LateCancel(file, fileCount, fileOk, cancelOk, failAt) ==
    LET ri == OTACtx_Reinit(otaCtx, bdInits, kv, dev, geom, 0)
    IN
    /\ pc = "idle"
    /\ wf.cancel /\ failAt = 0 /\ fileCount = 1 /\ fileOk
    /\ kv' = ri.kv /\ dev' = ri.dev /\ bdInits' = ri.bdInits /\ otaCtx' = ri.otaCtx
    /\ result' = [op |-> "Download", code |-> CancelCode(cancelOk)]
    /\ pc' = "idle"
    /\ UNCHANGED agentVars
    /\ UNCHANGED <<primary, boot, geom, secId, wf, args, sent, hist, faults, stages>>

DownloadStart(file, fileCount, fileOk, cancelOk, failAt) ==
    LET ri == OTACtx_Reinit(otaCtx, bdInits, kv, dev, geom, failAt)
        ctx == [ri.otaCtx[1] EXCEPT
                   !.active_header = SubSeq(primary.bytes, 1, HeaderSize),
                   !.total_exp = file.SizeInBytes]
        early(code) ==
            /\ result' = [op |-> "Download", code |-> code]
            /\ pc' = "idle"
            /\ UNCHANGED <<kv, boot, dev, secId, otaCtx, bdInits, args, sent, stages>>
    IN
    /\ pc = "idle"
    /\ FaultOK(failAt) /\ Charge(failAt)
    /\ wf.cancel => fileCount = 1 /\ fileOk
    /\ ~wf.cancel => cancelOk
    /\ hist' = [hist EXCEPT !.digestOk = FALSE, !.mismatch = FALSE,
                   !.chunkCode = "none", !.badHeader = FALSE, !.devFail = FALSE,
                   !.svFail = FALSE, !.oversized = FALSE]
    /\ IF wf.cancel THEN failAt = 0 /\ early(CancelCode(cancelOk))
       ELSE IF fileCount # 1 \/ ~fileOk THEN failAt = 0 /\ early("Failure")
       ELSE /\ stages < MaxStages
            /\ stages' = stages + 1
            /\ kv' = ri.kv /\ dev' = ri.dev /\ bdInits' = ri.bdInits
            /\ secId' = IF ri.erased THEN stages + 1 ELSE secId
            /\ boot' = IF ri.erased THEN [boot EXCEPT !.pending = FALSE] ELSE boot
            /\ sent' = <<>>
            /\ IF ~ri.ok
               THEN /\ otaCtx' = ri.otaCtx /\ pc' = "idle" /\ args' = NoArgs
                    /\ result' = [op |-> "Download", code |-> "Failure"]
               ELSE IF ih_magic(primary.bytes) # IMAGE_MAGIC
               THEN /\ otaCtx' = ri.otaCtx /\ pc' = "idle" /\ args' = NoArgs
                    /\ result' = [op |-> "Download", code |-> "Failure"]
               ELSE /\ otaCtx' = <<ctx>> /\ pc' = "sending"
                    /\ args' = [file |-> file, criteria |-> NoCriteria]
                    /\ result' = [op |-> "Download", code |-> "Download_Success"]
    /\ UNCHANGED agentVars
    /\ UNCHANGED <<primary, geom, wf>>

\* The body callback without the test of the cancel request.
Chunk_Uncancelled(dl_data, fault, junk) ==
    LET r == CombinedDownloadInstall(otaCtx[1], kv, dev, geom, dl_data,
                                     fault = 6, fault = 7,
                                     IF fault \in 1..5 THEN fault ELSE 0, junk)
        complete == otaCtx[1].offset < HeaderSize
                    /\ otaCtx[1].offset + Len(dl_data) >= HeaderSize
        h == CatchHeader(otaCtx[1], kv, dl_data, fault = 6, fault = 7)
        w == WriteThrough(dev, geom, otaCtx[1].secondary_bd_progunit_size,
                          otaCtx[1].secondary_bd_readblock_size, otaCtx[1].offset,
                          dl_data, IF fault \in 1..5 THEN fault ELSE 0, junk)
    IN
    /\ pc = "sending" /\ ~wf.httpCancel
    /\ FaultOK(fault) /\ Charge(fault)
    /\ IF IsAducResultCodeFailure(result.code)
       THEN /\ fault = 0
            /\ wf' = [wf EXCEPT !.httpCancel = TRUE]
            /\ UNCHANGED <<kv, dev, otaCtx, pc, result, sent, hist>>
       ELSE /\ kv' = r.kv /\ dev' = r.dev /\ otaCtx' = <<r.ctx>>
            /\ hist' = [hist EXCEPT !.chunkCode = r.code,
                           !.badHeader = complete /\ ih_magic(r.ctx.image_header) # IMAGE_MAGIC,
                           !.devFail = h.code = "ok" /\ w.rc = "fail",
                           !.svFail = /\ complete
                                      /\ ih_magic(r.ctx.image_header) = IMAGE_MAGIC
                                      /\ (fault \in {6, 7} \/ kv = NoRecord)]
            /\ IF r.code = "assert"
               THEN pc' = "halted" /\ UNCHANGED <<result, sent>>
               ELSE /\ pc' = pc
                    /\ result' = [result EXCEPT !.code = r.code]
                    /\ sent' = IF r.code = "Download_Success" THEN sent \o dl_data ELSE sent
            /\ UNCHANGED wf
    /\ UNCHANGED agentVars
    /\ UNCHANGED <<primary, boot, geom, secId, bdInits, args, stages>>

\* Lines 320-337: CombinedDownloadInstallTask, the body callback of the transfer.
\* fault: 0 none, 1-5 a device call of the writer, 6 kv_get, 7 kv_set.
Chunk(dl_data, fault, junk) ==
    LET r == CombinedDownloadInstall(otaCtx[1], kv, dev, geom, dl_data,
                                     fault = 6, fault = 7,
                                     IF fault \in 1..5 THEN fault ELSE 0, junk)
        complete == otaCtx[1].offset < HeaderSize
                    /\ otaCtx[1].offset + Len(dl_data) >= HeaderSize
        h == CatchHeader(otaCtx[1], kv, dl_data, fault = 6, fault = 7)
        w == WriteThrough(dev, geom, otaCtx[1].secondary_bd_progunit_size,
                          otaCtx[1].secondary_bd_readblock_size, otaCtx[1].offset,
                          dl_data, IF fault \in 1..5 THEN fault ELSE 0, junk)
    IN
    /\ pc = "sending" /\ ~wf.httpCancel
    /\ FaultOK(fault) /\ Charge(fault)
    /\ IF IsAducResultCodeFailure(result.code) \/ wf.cancel
       THEN /\ fault = 0
            /\ wf' = [wf EXCEPT !.httpCancel = TRUE]
            /\ UNCHANGED <<kv, dev, otaCtx, pc, result, sent, hist>>
       ELSE /\ kv' = r.kv /\ dev' = r.dev /\ otaCtx' = <<r.ctx>>
            /\ hist' = [hist EXCEPT !.chunkCode = r.code,
                           !.badHeader = complete /\ ih_magic(r.ctx.image_header) # IMAGE_MAGIC,
                           !.devFail = h.code = "ok" /\ w.rc = "fail",
                           !.svFail = /\ complete
                                      /\ ih_magic(r.ctx.image_header) = IMAGE_MAGIC
                                      /\ (fault \in {6, 7} \/ kv = NoRecord)]
            /\ IF r.code = "assert"
               THEN pc' = "halted" /\ UNCHANGED <<result, sent>>
               ELSE /\ pc' = pc
                    /\ result' = [result EXCEPT !.code = r.code]
                    /\ sent' = IF r.code = "Download_Success" THEN sent \o dl_data ELSE sent
            /\ UNCHANGED wf
    /\ UNCHANGED agentVars
    /\ UNCHANGED <<primary, boot, geom, secId, bdInits, args, stages>>

\* Lines 366-420: send() has returned; the checks that follow it.
DownloadFinish(responseNull, cancelOk, readFail) ==
    LET ctx == otaCtx[1]
        lenOk == ctx.offset = ctx.total_exp
        verified == VerifySignature(ctx, dev, geom, args.file, readFail)
        code == IF responseNull /\ ~wf.cancel THEN "Failure"
                ELSE IF wf.cancel THEN CancelCode(cancelOk)
                ELSE IF IsAducResultCodeFailure(result.code) THEN result.code
                ELSE IF ~lenOk THEN "Failure"
                ELSE IF ~verified THEN "Failure"
                ELSE result.code
        checked == ~responseNull /\ ~wf.cancel /\ ~IsAducResultCodeFailure(result.code)
    IN
    /\ pc = "sending"
    /\ FaultOK(readFail) /\ Charge(readFail)
    /\ ~wf.cancel => cancelOk
    /\ readFail # 0 => /\ checked /\ lenOk /\ args.file.HashCount # 0
                       /\ (readFail - 1) * ctx.secondary_bd_readblock_size
                            < args.file.SizeInBytes
    /\ result' = [result EXCEPT !.code = code]
    /\ otaCtx' = IF checked THEN <<[ctx EXCEPT !.total_act = ctx.offset]>> ELSE otaCtx
    /\ hist' = [hist EXCEPT !.digestOk = checked /\ lenOk /\ args.file.HashCount # 0
                                          /\ verified,
                   !.mismatch = checked /\ lenOk /\ args.file.HashCount # 0
                                /\ readFail = 0
                                /\ args.file.hashValue
                                      # HashOf(SubSeq(dev, 1, args.file.SizeInBytes))]
    /\ pc' = "idle"
    /\ args' = NoArgs
    /\ UNCHANGED agentVars
    /\ UNCHANGED <<kv, primary, boot, dev, geom, secId, bdInits, wf, sent, stages>>

-----------------------------------------------------------------------------
(* Apply, in the three steps that each end in a write, and IsInstalled *)

ApplyResult(code) == [op |-> "Apply", code |-> code]

\* Lines 455-481: criteria and cancel checks, then
\* nvImgUpgSt_setStageInstalledCriteria.  Calls: 1 kv_get, 2 kv_set.
Apply_1(installedCriteria, cancelOk, failAt) ==
    LET st == nvImgUpgSt_setStageInstalledCriteria(kv, installedCriteria,
                                                   failAt = 1, failAt = 2)
        long == ~IsNullOrEmpty(installedCriteria)
                /\ Len(installedCriteria) > INSTALLEDCRITERIA_MAXCHAR
        leave(code) ==
            /\ result' = ApplyResult(code)
            /\ pc' = "idle" /\ args' = NoArgs
    IN
    /\ pc = "idle"
    /\ FaultOK(failAt) /\ Charge(failAt)
    /\ ~wf.cancel \/ IsNullOrEmpty(installedCriteria) => cancelOk
    /\ IF IsNullOrEmpty(installedCriteria)
       THEN /\ failAt = 0 /\ leave("Failure") /\ kv' = kv
            /\ hist' = [hist EXCEPT !.applyLog = <<>>, !.oversized = long]
       ELSE IF wf.cancel
       THEN /\ failAt = 0 /\ leave(CancelCode(cancelOk)) /\ kv' = kv
            /\ hist' = [hist EXCEPT !.applyLog = <<>>, !.oversized = long]
       ELSE IF ~st.ok
       THEN /\ leave("Failure") /\ kv' = st.kv
            /\ hist' = [hist EXCEPT !.applyLog = <<>>, !.oversized = long]
       ELSE /\ kv' = st.kv
            /\ pc' = "Apply_2"
            /\ args' = [file |-> NoFile, criteria |-> installedCriteria]
            /\ result' = ApplyResult("Apply_Success")
            /\ hist' = [hist EXCEPT !.applyLog = <<"criteria">>, !.critId = secId,
                           !.oversized = long]
    /\ UNCHANGED agentVars
    /\ UNCHANGED <<primary, boot, dev, geom, secId, otaCtx, bdInits, wf, sent, stages>>

\* Apply going on to its third step without marking the secondary slot pending.
Apply_2_Unmarked(failAt) ==
    /\ pc = "Apply_2"
    /\ FaultOK(failAt) /\ Charge(failAt)
    /\ pc' = "Apply_3"
    /\ UNCHANGED agentVars
    /\ UNCHANGED <<kv, primary, boot, dev, geom, secId, otaCtx, bdInits, wf, args,
                   result, sent, hist, stages>>

\* Lines 483-488: boot_set_pending(false).  Call: 1 boot_set_pending.
Apply_2(failAt) ==
    /\ pc = "Apply_2"
    /\ FaultOK(failAt) /\ Charge(failAt)
    /\ IF failAt = 1
       THEN /\ result' = ApplyResult("Failure") /\ pc' = "idle" /\ args' = NoArgs
            /\ UNCHANGED <<boot, hist>>
       ELSE /\ boot' = [boot EXCEPT !.pending = TRUE]
            /\ hist' = [hist EXCEPT !.applyLog = Append(hist.applyLog, "pending")]
            /\ pc' = "Apply_3"
            /\ UNCHANGED <<result, args>>
    /\ UNCHANGED agentVars
    /\ UNCHANGED <<kv, primary, dev, geom, secId, otaCtx, bdInits, wf, sent, stages>>

\* Lines 490-504: nvImgUpgSt_setInstallRebooted(false), then the reboot request.
\* Calls: 1 kv_get, 2 kv_set.
Apply_3(failAt) ==
    LET st == nvImgUpgSt_setInstallRebooted(kv, FALSE, failAt = 1, failAt = 2)
    IN
    /\ pc = "Apply_3"
    /\ FaultOK(failAt) /\ Charge(failAt)
    /\ kv' = st.kv
    /\ IF ~st.ok
       THEN /\ result' = ApplyResult("Failure")
            /\ UNCHANGED <<wf, hist>>
       ELSE /\ result' = ApplyResult("Apply_RequiredReboot")
            /\ wf' = [wf EXCEPT !.reboot = TRUE]
            /\ hist' = [hist EXCEPT !.applyLog = hist.applyLog \o <<"rebooted", "reboot">>]
    /\ pc' = "idle" /\ args' = IF st.ok THEN args ELSE NoArgs
    /\ UNCHANGED agentVars
    /\ UNCHANGED <<primary, boot, dev, geom, secId, otaCtx, bdInits, sent, stages>>

\* MCUbUpdateHandlerImpl::IsInstalled.  Call: 1 kv_get.  The function reads the
\* store through nvImgUpgSt_persistentInstalledCriteria and makes no other call.
DoIsInstalled(installedCriteria, failAt) ==
    /\ pc = "idle"
    /\ FaultOK(failAt) /\ Charge(failAt)
    /\ result' = [op |-> "IsInstalled", code |-> IsInstalled(kv, installedCriteria, failAt)]
    /\ args' = [file |-> NoFile, criteria |-> installedCriteria]
    /\ hist' = [hist EXCEPT !.once = Snapshot, !.fault = failAt]
    /\ UNCHANGED agentVars
    /\ UNCHANGED <<kv, primary, boot, dev, geom, secId, otaCtx, bdInits, pc, wf,
                   sent, stages>>

-----------------------------------------------------------------------------
(* The life cycle of the device *)

\* Chunks of the transfer: the bytes accepted so far, followed by the chunk,
\* begin one of the images.
IsPrefix(a, b) == Len(a) <= Len(b) /\ SubSeq(b, 1, Len(a)) = a
ChunksAfter(done) ==
    UNION {{SubSeq(img, Len(done) + 1, n) :
               n \in (Len(done) + 1)..Min(Len(img), Len(done) + MaxChunk)} :
           img \in {i \in Images : IsPrefix(done, i)}}

Next ==
    \/ Reset
    \/ PostReboot_1
    \/ PostReboot_2
    \/ PostReboot_3
    \/ PostReboot_4
    \/ PostReboot_5
    \/ Main
    \/ RequestCancel
    \/ NewWorkflow
    \/ \E img \in Images : \E file \in FilesOf(img), fileCount \in {1, 2},
          fileOk \in BOOLEAN, cancelOk \in BOOLEAN, failAt \in 0..4 :
          DownloadStart(file, fileCount, fileOk, cancelOk, failAt)
    \/ \E dl_data \in ChunksAfter(sent), fault \in 0..7, junk \in {"00"} :
          Chunk(dl_data, fault, junk)
    \/ \E responseNull \in BOOLEAN, cancelOk \in BOOLEAN, readFail \in 0..DevSize :
          DownloadFinish(responseNull, cancelOk, readFail)
    \/ \E c \in CriteriaArg, cancelOk \in BOOLEAN, failAt \in 0..2 :
          Apply_1(c, cancelOk, failAt)
    \/ \E failAt \in 0..1 : Apply_2(failAt)
    \/ \E failAt \in 0..2 : Apply_3(failAt)

Spec == Init /\ [][Next]_vars

-----------------------------------------------------------------------------
(* The transfer on its own: a Download that has reached send(), on a device of *)
(* any geometry, fed any bytes in any split                                     *)

Geometries ==
    {[read_size |-> r, program_size |-> p] : r \in 1..MaxUnit, p \in 1..MaxUnit}

\* Bytes of the streams: the magic and one other value, both different from the
\* erase value and from the indeterminate bytes.
StreamByte == {IMAGE_MAGIC, "01"}
Chunks == UNION {[1..n -> StreamByte] : n \in 1..MaxChunk}
Junk == {"00", EraseValue}

\* The file entity of the transfer: no hash entry, DevSize - 1 bytes expected.
StreamFile ==
    [SizeInBytes |-> DevSize - 1, HashCount |-> 0, hashType |-> "sha256",
     hashValue |-> <<>>]

\* The state Download is in when send() starts (lines 273-306 have succeeded).
InitWriter ==
    /\ AgentIdle
    /\ geom \in Geometries
    /\ kv = Stored(ZeroRecord)
    /\ primary = [bytes |-> SlotOf(FactoryImage), image_ok |-> "SET", id |-> 0]
    /\ boot = [pending |-> FALSE, revert |-> FALSE]
    /\ dev = ErasedDev
    /\ secId = 1
    /\ otaCtx = <<[NewCtx(geom) EXCEPT
                      !.active_header = SubSeq(SlotOf(FactoryImage), 1, HeaderSize),
                      !.total_exp = StreamFile.SizeInBytes]>>
    /\ bdInits = 1
    /\ wf = FreshWf
    /\ args = [file |-> StreamFile, criteria |-> NoCriteria]
    /\ result = [op |-> "Download", code |-> "Download_Success"]
    /\ sent = <<>>
    /\ hist = InitHist
    /\ faults = 0
    /\ stages = 1
    /\ pc = "sending"

NextWriter ==
    \/ \E dl_data \in Chunks, fault \in 0..7, junk \in Junk : Chunk(dl_data, fault, junk)
    \/ \E responseNull \in BOOLEAN : DownloadFinish(responseNull, TRUE, 0)

SpecWriter == InitWriter /\ [][NextWriter]_vars

-----------------------------------------------------------------------------
(* The persistent record on its own: any stored record, the operations on it *)

\* Records the operations of this file can leave in the store; the reserved
\* word is the one field they never write, so it holds whatever was there.
Records ==
    {[stageVersion_valid |-> sv[1], stageVersion |-> sv[2],
      installRebooted_valid |-> ir[1], installRebooted |-> ir[2],
      stageInstalledCriteria_valid |-> sc[1], stageInstalledCriteria |-> sc[2],
      reserved |-> rs,
      persistentInstalledCriteria_valid |-> pcr[1], persistentInstalledCriteria |-> pcr[2]] :
        sv \in {<<FALSE, ZeroVersion>>, <<TRUE, "01">>, <<TRUE, "02">>},
        ir \in {<<FALSE, FALSE>>, <<TRUE, FALSE>>, <<TRUE, TRUE>>},
        sc \in {<<FALSE, "">>, <<TRUE, "v1.0">>, <<TRUE, "v2.0">>},
        rs \in {0, 1},
        pcr \in {<<FALSE, "">>, <<TRUE, "v1.0">>, <<TRUE, "v2.0">>}}

Stores == {NoRecord} \cup {Stored(r) : r \in Records}

\* Images the primary slot can hold; image_ok of the slot is BOOT_FLAG_SET,
\* BOOT_FLAG_UNSET or BOOT_FLAG_BAD.
RunningImages ==
    {SlotOf(MkImage(IMAGE_MAGIC, v, <<"00">>)) : v \in {"01", "02"}}

InitNV ==
    /\ AgentIdle
    /\ kv \in Stores
    /\ primary \in [bytes : RunningImages, image_ok : {"SET", "UNSET", "BAD"}, id : {0}]
    /\ boot = [pending |-> FALSE, revert |-> FALSE]
    /\ dev = ErasedDev
    /\ geom = [read_size |-> 1, program_size |-> 2]
    /\ secId = -1
    /\ otaCtx = NoCtx
    /\ bdInits = 0
    /\ wf = FreshWf
    /\ args = NoArgs
    /\ result = NoResult
    /\ sent = <<>>
    /\ hist = InitHist
    /\ faults = 0
    /\ stages = 0
    /\ pc = "idle"

\* nvImgUpgSt_reset applied to the stored record.  Calls: 1 kv_get (made only
\* when includeReserved is false), 2 kv_set.
NvReset(includeReserved, failAt) ==
    LET r == nvImgUpgSt_reset(kv, includeReserved, failAt = 1, failAt = 2)
    IN
    /\ pc = "idle"
    /\ FaultOK(failAt) /\ Charge(failAt)
    /\ includeReserved => failAt # 1
    /\ kv' = r.kv
    /\ result' = [op |-> IF includeReserved THEN "reset(true)" ELSE "reset(false)",
                  code |-> IF r.ok THEN "true" ELSE "false"]
    /\ hist' = [hist EXCEPT !.once = Snapshot, !.fault = failAt]
    /\ UNCHANGED agentVars
    /\ UNCHANGED <<primary, boot, dev, geom, secId, otaCtx, bdInits, pc, wf, args,
                   sent, stages>>

\* nvImgUpgSt_installed applied to the stored record and the primary slot.
\* Calls: 1 kv_get, 2 flash_area_open, 3 boot_read_image_ok.
NvInstalled(failAt) ==
    LET q == nvImgUpgSt_installed(kv, primary.bytes, primary.image_ok,
                                  failAt = 1, failAt = 2, failAt = 3)
    IN
    /\ pc = "idle"
    /\ FaultOK(failAt) /\ Charge(failAt)
    /\ result' = [op |-> "installed",
                  code |-> IF ~q.ok THEN "false"
                           ELSE IF q.confirmed THEN "true, confirmed"
                           ELSE "true, not confirmed"]
    /\ hist' = [hist EXCEPT !.once = Snapshot, !.fault = failAt]
    /\ UNCHANGED agentVars
    /\ UNCHANGED <<kv, primary, boot, dev, geom, secId, otaCtx, bdInits, pc, wf, args,
                   sent, stages>>

\* nvImgUpgSt_settleInstalledCriteria applied to the stored record.
\* Calls: 1 kv_get, 2 kv_set.
NvSettle(failAt) ==
    LET r == nvImgUpgSt_settleInstalledCriteria(kv, failAt = 1, failAt = 2)
    IN
    /\ pc = "idle"
    /\ FaultOK(failAt) /\ Charge(failAt)
    /\ kv' = r.kv
    /\ result' = [op |-> "settle", code |-> IF r.ok THEN "true" ELSE "false"]
    /\ hist' = [hist EXCEPT !.once = Snapshot, !.fault = failAt]
    /\ UNCHANGED agentVars
    /\ UNCHANGED <<primary, boot, dev, geom, secId, otaCtx, bdInits, pc, wf, args,
                   sent, stages>>

NextNV ==
    \/ \E includeReserved \in BOOLEAN, failAt \in 0..2 : NvReset(includeReserved, failAt)
    \/ \E failAt \in 0..3 : NvInstalled(failAt)
    \/ \E failAt \in 0..2 : NvSettle(failAt)
    \/ \E c \in CriteriaArg, failAt \in 0..1 : DoIsInstalled(c, failAt)

SpecNV == InitNV /\ [][NextNV]_vars

-----------------------------------------------------------------------------
(* Download on its own: the agent is idle after an earlier stage, of which the *)
(* context, the device contents and the record may be left                     *)

\* Records an earlier attempt can have left: none, the empty one, one of a
\* staged image, one of an attempt that was applied and restarted.
PriorStores ==
    {NoRecord, Stored(ZeroRecord),
     Stored([ZeroRecord EXCEPT !.stageVersion_valid = TRUE, !.stageVersion = "02",
                               !.reserved = 1,
                               !.persistentInstalledCriteria_valid = TRUE,
                               !.persistentInstalledCriteria = "v1.0"]),
     Stored([ZeroRecord EXCEPT !.stageVersion_valid = TRUE, !.stageVersion = "01",
                               !.installRebooted_valid = TRUE, !.installRebooted = TRUE,
                               !.stageInstalledCriteria_valid = TRUE,
                               !.stageInstalledCriteria = "v2.0",
                               !.reserved = 1])}

\* What an earlier Download left behind: [otaCtx, bdInits, dev].  Download
\* returned after a complete transfer (context and device kept), the device
\* restarted after it (context gone), OTACtx_Reinit failed in erase() (context
\* deleted, device initialised), or there was none.
PriorStages ==
    {[otaCtx |-> NoCtx, bdInits |-> 0, dev |-> ErasedDev],
     [otaCtx |-> NoCtx, bdInits |-> 1, dev |-> ErasedDev]}
    \cup {[otaCtx |-> NoCtx, bdInits |-> 0, dev |-> SlotOf(img)] : img \in Images}
    \cup {[otaCtx |-> <<[NewCtx([read_size |-> 1, program_size |-> 2]) EXCEPT
                            !.active_header = SubSeq(SlotOf(FactoryImage), 1, HeaderSize),
                            !.image_header = SubSeq(img, 1, HeaderSize),
                            !.offset = Len(img), !.total_exp = Len(img),
                            !.total_act = Len(img)]>>,
            bdInits |-> 1, dev |-> SlotOf(img)] : img \in Images}

InitStage ==
    /\ AgentIdle
    /\ kv \in PriorStores
    /\ primary = [bytes |-> SlotOf(FactoryImage), image_ok |-> "SET", id |-> 0]
    /\ boot = [pending |-> FALSE, revert |-> FALSE]
    /\ \E prior \in PriorStages :
          dev = prior.dev /\ otaCtx = prior.otaCtx /\ bdInits = prior.bdInits
    /\ geom = [read_size |-> 1, program_size |-> 2]
    /\ secId = -1
    /\ wf = FreshWf
    /\ args = NoArgs
    /\ result = NoResult
    /\ sent = <<>>
    /\ hist = InitHist
    /\ faults = 0
    /\ stages = 0
    /\ pc = "idle"

NextStage ==
    \/ RequestCancel
    \/ NewWorkflow
    \/ \E img \in Images : \E file \in FilesOf(img), fileCount \in {1, 2},
          fileOk \in BOOLEAN, cancelOk \in BOOLEAN, failAt \in 0..4 :
          DownloadStart(file, fileCount, fileOk, cancelOk, failAt)
    \/ \E dl_data \in ChunksAfter(sent), fault \in 0..7, junk \in {"00"} :
          Chunk(dl_data, fault, junk)
    \/ \E responseNull \in BOOLEAN, cancelOk \in BOOLEAN, readFail \in 0..DevSize :
          DownloadFinish(responseNull, cancelOk, readFail)

SpecStage == InitStage /\ [][NextStage]_vars

\* Apply on its own, from the same states.
NextApply ==
    \/ RequestCancel
    \/ NewWorkflow
    \/ \E c \in CriteriaArg, cancelOk \in BOOLEAN, failAt \in 0..2 :
          Apply_1(c, cancelOk, failAt)
    \/ \E failAt \in 0..1 : Apply_2(failAt)
    \/ \E failAt \in 0..2 : Apply_3(failAt)

SpecApply == InitStage /\ [][NextApply]_vars

----------------------------------------------------------------------------
\* Download and Apply entered with or without a cancellation requested

NextEntry ==
    \/ RequestCancel
    \/ NewWorkflow
    \/ \E img \in Images : \E file \in FilesOf(img), fileCount \in {1, 2},
          fileOk \in BOOLEAN, cancelOk \in BOOLEAN, failAt \in 0..4 :
          DownloadStart(file, fileCount, fileOk, cancelOk, failAt)
    \/ \E responseNull \in BOOLEAN, cancelOk \in BOOLEAN :
          DownloadFinish(responseNull, cancelOk, 0)
    \/ \E c \in CriteriaArg, cancelOk \in BOOLEAN, failAt \in 0..2 :
          Apply_1(c, cancelOk, failAt)
    \/ \E failAt \in 0..1 : Apply_2(failAt)
    \/ \E failAt \in 0..2 : Apply_3(failAt)

SpecEntry == InitStage /\ [][NextEntry]_vars

\* MbedPlatformLayer::Apply around the handler's Apply, with
\* MbedPlatformLayer::Cancel called from the main thread at any point

\* Lines 225-232: the handler is looked up and its Apply is called.
PlatformApply_Call(handlerOk) ==
    /\ pc = "idle" /\ ~wf.applying
    /\ IF handlerOk
       THEN /\ wf' = [wf EXCEPT !.applying = TRUE, !.reported = "none"]
            /\ result' = NoResult
       ELSE /\ wf' = [wf EXCEPT !.reported = "Failure"]
            /\ result' = result
    /\ UNCHANGED agentVars
    /\ UNCHANGED <<kv, primary, boot, dev, geom, secId, otaCtx, bdInits, pc, args,
                   sent, hist, faults, stages>>

\* Lines 234-243: the handler has returned; a cancellation requested by then
\* replaces its result.
PlatformApply_Return ==
    /\ pc = "idle" /\ wf.applying /\ result.op = "Apply"
    /\ wf' = [wf EXCEPT !.applying = FALSE,
                        !.reported = IF wf.IsCancellationRequested
                                     THEN "Failure_Cancelled" ELSE result.code,
                        !.IsCancellationRequested = FALSE]
    /\ UNCHANGED agentVars
    /\ UNCHANGED <<kv, primary, boot, dev, geom, secId, otaCtx, bdInits, pc, args,
                   result, sent, hist, faults, stages>>

\* Lines 270-301: the flag is raised and the handler's Cancel asks the
\* workflow to cancel (requestOk: workflow_request_cancel returned true).
PlatformCancel(requestOk) ==
    /\ pc \in {"idle", "Apply_2", "Apply_3"}
    /\ ~wf.IsCancellationRequested
    /\ wf' = [wf EXCEPT !.IsCancellationRequested = TRUE,
                        !.cancel = wf.cancel \/ requestOk]
    /\ UNCHANGED agentVars
    /\ UNCHANGED <<kv, primary, boot, dev, geom, secId, otaCtx, bdInits, pc, args,
                   result, sent, hist, faults, stages>>

NextPlatform ==
    \/ \E handlerOk \in BOOLEAN : PlatformApply_Call(handlerOk)
    \/ \E c \in CriteriaArg, cancelOk \in BOOLEAN, failAt \in 0..2 :
          wf.applying /\ result = NoResult /\ Apply_1(c, cancelOk, failAt)
    \/ \E failAt \in 0..1 : Apply_2(failAt)
    \/ \E failAt \in 0..2 : Apply_3(failAt)
    \/ PlatformApply_Return
    \/ \E requestOk \in BOOLEAN : PlatformCancel(requestOk)

SpecPlatform == InitStage /\ [][NextPlatform]_vars

-----------------------------------------------------------------------------
(* The recovery routine on its own: any stored record, run twice *)

InitRecovery ==
    /\ AgentIdle
    /\ kv \in Stores
    /\ primary \in [bytes : RunningImages, image_ok : {"SET", "UNSET"}, id : {0}]
    /\ boot = [pending |-> FALSE, revert |-> FALSE]
    /\ dev = ErasedDev
    /\ geom = [read_size |-> 1, program_size |-> 2]
    /\ secId = -1
    /\ otaCtx = NoCtx
    /\ bdInits = 0
    /\ wf = FreshWf
    /\ args = NoArgs
    /\ result = NoResult
    /\ sent = <<>>
    /\ hist = [InitHist EXCEPT !.boot0 = Snapshot, !.runs = 1]
    /\ faults = 0
    /\ stages = 0
    /\ pc = "PostReboot_1"

RecoveryEnded == pc \in {"main", "NVIC_SystemReset"}

\* The routine has ended and starts again on what it left: the restart, if one
\* was requested, changed nothing.
RunAgain ==
    /\ RecoveryEnded
    /\ hist.runs = 1
    /\ hist' = [hist EXCEPT !.once = Snapshot, !.runs = 2,
                   !.forced = IF pc = "NVIC_SystemReset" THEN 1 ELSE 0]
    /\ pc' = "PostReboot_1"
    /\ UNCHANGED agentVars
    /\ UNCHANGED <<kv, primary, boot, dev, geom, secId, otaCtx, bdInits, wf, args,
                   result, sent, faults, stages>>

\* The restart forced by the routine, after which the bootloader puts another
\* image, confirmed, into the primary slot (the swap back of a test image).
RevertRestart ==
    /\ pc = "NVIC_SystemReset"
    /\ hist.runs = 1
    /\ primary.image_ok # "SET"
    /\ \E bytes \in RunningImages :
          /\ primary' = [bytes |-> bytes, image_ok |-> "SET", id |-> 1]
          /\ hist' = [hist EXCEPT !.once = [kv |-> kv, image_ok |-> "SET", primId |-> 1],
                         !.runs = 2, !.forced = 1]
    /\ pc' = "PostReboot_1"
    /\ UNCHANGED agentVars
    /\ UNCHANGED <<kv, boot, dev, geom, secId, otaCtx, bdInits, wf, args,
                   result, sent, faults, stages>>

NextRecovery ==
    \/ PostReboot_1
    \/ PostReboot_2
    \/ PostReboot_3
    \/ PostReboot_4
    \/ PostReboot_5
    \/ RunAgain
    \/ RevertRestart

\* An uncontrolled restart at any point of the first run of the routine (or
\* after it).  The bootloader leaves a confirmed image where it is, and may
\* swap the previous image back over one that is not confirmed.
PowerCut ==
    /\ hist.runs = 1
    /\ \E p \in {primary} \cup
                 (IF primary.image_ok = "SET" THEN {}
                  ELSE [bytes : RunningImages, image_ok : {"SET"}, id : {1}]) :
          /\ primary' = p
          /\ hist' = [hist EXCEPT !.once = [kv |-> kv, image_ok |-> p.image_ok,
                                            primId |-> p.id],
                         !.runs = 2, !.cut = pc,
                         !.bootFaults = faults,
                         !.forced = IF pc = "NVIC_SystemReset" THEN 1 ELSE 0]
    /\ pc' = "PostReboot_1"
    /\ UNCHANGED agentVars
    /\ UNCHANGED <<kv, boot, dev, geom, secId, otaCtx, bdInits, wf, args,
                   result, sent, faults, stages>>

NextCrash ==
    \/ PostReboot_1
    \/ PostReboot_2
    \/ PostReboot_3
    \/ PostReboot_4
    \/ PostReboot_5
    \/ PowerCut

SpecCrash == InitRecovery /\ [][NextCrash]_vars

\* The routine's own steps are taken; a power cut need not happen.
SpecCrashLive ==
    SpecCrash /\ WF_vars(PostReboot_1 \/ PostReboot_2 \/ PostReboot_3
                            \/ PostReboot_4 \/ PostReboot_5)

SpecRecovery == InitRecovery /\ [][NextRecovery]_vars

----------------------------------------------------------------------------
\* VerifySignature on any contents of the secondary slot, any geometry and any
\* file size the writer can have accepted

SlotContents == [1..DevSize -> StreamByte]

InitVerify ==
    /\ AgentIdle
    /\ geom \in Geometries
    /\ dev \in SlotContents
    /\ \E size \in 0..DevSize, hashOk \in BOOLEAN :
          /\ otaCtx = <<[NewCtx(geom) EXCEPT !.offset = size, !.total_exp = size,
                                             !.total_act = size]>>
          /\ args = [file |-> [SizeInBytes |-> size, HashCount |-> 1,
                               hashType |-> "sha256",
                               hashValue |-> IF hashOk THEN HashOf(SubSeq(dev, 1, size))
                                             ELSE HashOf(<<>> \o <<"00">>)],
                     criteria |-> NoCriteria]
    /\ kv = Stored(ZeroRecord)
    /\ primary = [bytes |-> SlotOf(FactoryImage), image_ok |-> "SET", id |-> 0]
    /\ boot = [pending |-> FALSE, revert |-> FALSE]
    /\ secId = 1
    /\ bdInits = 1
    /\ wf = FreshWf
    /\ result = [op |-> "Download", code |-> "Download_Success"]
    /\ sent = <<>>
    /\ hist = InitHist
    /\ faults = 0
    /\ stages = 1
    /\ pc = "VerifySignature"

VerifyRun(readFail) ==
    LET ctx == otaCtx[1]
        rl == ReadLoop(dev, geom, ctx.secondary_bd_readblock_size, 0,
                       args.file.SizeInBytes, <<>>, <<>>, readFail)
    IN
    /\ pc = "VerifySignature"
    /\ FaultOK(readFail) /\ Charge(readFail)
    /\ readFail # 0 =>
          (readFail - 1) * ctx.secondary_bd_readblock_size < args.file.SizeInBytes
    /\ hist' = [hist EXCEPT !.vs =
                   <<[ret |-> VerifySignature(ctx, dev, geom, args.file, readFail),
                      ok |-> rl.ok, fed |-> rl.fed, reads |-> rl.reads]>>]
    /\ pc' = "verified"
    /\ UNCHANGED agentVars
    /\ UNCHANGED <<kv, primary, boot, dev, geom, secId, otaCtx, bdInits, wf, args,
                   result, sent, stages>>

NextVerify == \E readFail \in 0..DevSize : VerifyRun(readFail)

SpecVerify == InitVerify /\ [][NextVerify]_vars

\* The routine is straight-line code and NVIC_SystemReset does restart the
\* device: every step that can be taken is taken.
SpecRecoveryLive == SpecRecovery /\ WF_vars(NextRecovery)

-----------------------------------------------------------------------------
(* Properties of the transfer *)

\* The last chunk callback returned success and the transfer is still open.
LastChunkAccepted == pc = "sending" /\ hist.chunkCode = "Download_Success"

\* C1: chunk-split invariance of the aligned block writer.  Whatever the bytes,
\* the program unit size and the split into chunks, once the last chunk has
\* returned success the device holds, from offset 0, exactly the bytes
\* delivered so far, and dl_prog.offset is their number.
C1_ChunkSplitInvariance ==
    LastChunkAccepted =>
        /\ otaCtx[1].offset = Len(sent)
        /\ Len(sent) <= DevSize
        /\ SubSeq(dev, 1, Len(sent)) = sent

\* A stream that ends in the middle of a program unit of 2 bytes, delivered in
\* at least two chunks, is on the device in full.
C1_Witness ==
    /\ LastChunkAccepted
    /\ geom.program_size = 2
    /\ Len(sent) = DevSize - 1
    /\ SubSeq(dev, 1, Len(sent)) = sent
    /\ dev[DevSize] = EraseValue

\* A chunk completed a header whose magic is wrong.
C7_Witness ==
    /\ hist.badHeader
    /\ pc = "idle"
    /\ result = [op |-> "Download", code |-> "Failure"]
    /\ Len(sent) = HeaderSize - 1
    /\ otaCtx[1].offset = HeaderSize - 1

\* C7: header gate.  However the header bytes are split across chunks, the
\* chunk that completes a header with a wrong magic returns Failure, the
\* offset stays below the header size, a transfer whose offset has reached the
\* header size carries the magic, and the Download of such a stream ends in
\* Failure.
C7_HeaderGate ==
    /\ hist.badHeader =>
          /\ hist.chunkCode = "Failure"
          /\ otaCtx[1].offset < HeaderSize
          /\ result.code = "Failure"
    /\ (otaCtx # NoCtx /\ otaCtx[1].offset >= HeaderSize) =>
          ih_magic(otaCtx[1].image_header) = IMAGE_MAGIC
    /\ (sent # <<>> /\ Len(sent) >= HeaderSize) => ih_magic(sent) = IMAGE_MAGIC

-----------------------------------------------------------------------------
(* Properties of the persistent record *)

\* The record read by the last operation, and the record it left.
Before == Rec(hist.once.kv)
After == Rec(kv)

\* C8: reserved-region preservation.  With a full-size record stored and the
\* calls to the store succeeding, nvImgUpgSt_reset(false) zeroes the fields
\* before the reserved boundary and leaves reserved and the persistent
\* criteria as they were; nvImgUpgSt_reset(true) writes the all-zero record.
C8_ReservedRegionPreserved ==
    /\ (result.op = "reset(false)" /\ hist.once.kv # NoRecord /\ hist.fault = 0) =>
          /\ result.code = "true"
          /\ kv # NoRecord
          /\ ~After.stageVersion_valid /\ After.stageVersion = ZeroVersion
          /\ ~After.installRebooted_valid /\ ~After.installRebooted
          /\ ~After.stageInstalledCriteria_valid /\ After.stageInstalledCriteria = ""
          /\ After.reserved = Before.reserved
          /\ After.persistentInstalledCriteria_valid
                = Before.persistentInstalledCriteria_valid
          /\ After.persistentInstalledCriteria = Before.persistentInstalledCriteria
    /\ (result.op = "reset(true)" /\ hist.fault = 0) =>
          result.code = "true" /\ kv = Stored(ZeroRecord)

\* reset(false) cleared an attempt and kept a settled criteria and a non-zero
\* reserved word.
C8_Witness ==
    /\ result.op = "reset(false)" /\ hist.fault = 0
    /\ hist.once.kv # NoRecord
    /\ Before.stageVersion_valid /\ Before.stageInstalledCriteria_valid
    /\ Before.reserved = 1
    /\ Before.persistentInstalledCriteria_valid
    /\ After.reserved = 1
    /\ After.persistentInstalledCriteria = Before.persistentInstalledCriteria
    /\ ~After.stageVersion_valid

\* The persistent criteria is valid and equal to the criteria asked about.
Settled(c) ==
    /\ kv # NoRecord
    /\ After.persistentInstalledCriteria_valid
    /\ After.persistentInstalledCriteria = c

\* C10: IsInstalled.  A null or empty criteria gives Failure; any other gives
\* Installed or NotInstalled, Installed only if the persistent criteria is
\* valid and equal to it, and always so when the record was read; the stored
\* record is what it was before the call.
C10_QueryInstalled ==
    result.op = "IsInstalled" =>
        /\ kv = hist.once.kv
        /\ IsNullOrEmpty(args.criteria) => result.code = "Failure"
        /\ ~IsNullOrEmpty(args.criteria) =>
              /\ result.code \in {"IsInstalled_Installed", "IsInstalled_NotInstalled"}
              /\ result.code = "IsInstalled_Installed" => Settled(args.criteria)
              /\ (Settled(args.criteria) /\ hist.fault = 0) =>
                    result.code = "IsInstalled_Installed"

\* IsInstalled found the criteria it was asked about.
C10_Witness ==
    /\ result = [op |-> "IsInstalled", code |-> "IsInstalled_Installed"]
    /\ args.criteria = "v2.0"
    /\ Settled("v2.0")
    /\ hist.fault = 0

-----------------------------------------------------------------------------
(* Properties of the recovery routine *)

-----------------------------------------------------------------------------
(* Properties of the life cycle *)

\* The record and the flag with which the running boot began are those Apply
\* leaves for the criteria c before a swap to the staged version.
RebootedIntoStaged(c) ==
    /\ hist.runs = 1
    /\ faults = hist.bootFaults
    /\ hist.boot0.kv # NoRecord
    /\ hist.boot0.image_ok = "UNSET"
    /\ Rec(hist.boot0.kv).stageInstalledCriteria_valid
    /\ Rec(hist.boot0.kv).stageInstalledCriteria = c
    /\ Rec(hist.boot0.kv).installRebooted_valid
    /\ ~Rec(hist.boot0.kv).installRebooted
    /\ Rec(hist.boot0.kv).stageVersion_valid
    /\ Rec(hist.boot0.kv).stageVersion = ih_ver(primary.bytes)

\* C3: confirm path after reboot.  When the device starts in the staged version
\* with the confirmed flag unset, after an Apply for criteria c, and no call
\* of the recovery routine fails, the routine sets the confirmed flag before it
\* settles, never takes the revert branch, and from the settle on
\* IsInstalled(c) is Installed.
C3_ConfirmPath ==
    \A c \in Criteria :
        RebootedIntoStaged(c) =>
            /\ pc \notin {"PostReboot_5", "NVIC_SystemReset"}
            /\ pc \in {"PostReboot_3", "PostReboot_4", "main"} => primary.image_ok = "SET"
            /\ pc \in {"PostReboot_4", "main"} =>
                  IsInstalled(kv, c, 0) = "IsInstalled_Installed"

\* The staged image was swapped in and the routine has run to its end.
C3_Witness ==
    /\ RebootedIntoStaged("v2.0")
    /\ pc = "main"
    /\ primary.id = 1
    /\ primary.image_ok = "SET"
    /\ IsInstalled(kv, "v2.0", 0) = "IsInstalled_Installed"

ActivateSteps == <<"criteria", "pending", "rebooted", "reboot">>

\* C9: Activate sequence.  The steps of Apply are taken in the order criteria,
\* pending, installRebooted, reboot request; RequiredReboot is returned only
\* with all four taken and their effects in place; a Failure leaves the later
\* steps untaken and no reboot requested by this Apply.
C9_ActivateSequence ==
    /\ IsPrefix(hist.applyLog, ActivateSteps)
    /\ pc = "Apply_2" => hist.applyLog = SubSeq(ActivateSteps, 1, 1)
    /\ pc = "Apply_3" => hist.applyLog = SubSeq(ActivateSteps, 1, 2) /\ boot.pending
    /\ result = ApplyResult("Apply_RequiredReboot") =>
          /\ hist.applyLog = ActivateSteps
          /\ wf.reboot
          /\ boot.pending
          /\ kv # NoRecord
          /\ After.stageInstalledCriteria_valid
          /\ After.stageInstalledCriteria = args.criteria
          /\ After.installRebooted_valid /\ ~After.installRebooted
    /\ (result = ApplyResult("Failure") /\ pc = "idle") =>
          Len(hist.applyLog) < Len(ActivateSteps) - 1

\* Apply returned RequiredReboot for "v2.0".
C9_Witness ==
    /\ result = ApplyResult("Apply_RequiredReboot")
    /\ args.criteria = "v2.0"
    /\ hist.applyLog = ActivateSteps
    /\ boot.pending /\ wf.reboot

\* C2: installed implies really installed.  A criteria is settled only while
\* the image staged with it is the one running in the primary slot, its
\* confirmed flag set.
C2_InstalledImpliesRunning ==
    hist.settled # <<>> =>
        /\ hist.settled[1].staged = hist.settled[1].running
        /\ hist.settled[1].image_ok = "SET"

\* C4: Activate requires a verified stage.  Apply returns RequiredReboot only
\* after a Download that compared the digests and found them equal.
C4_ActivateRequiresVerifiedStage ==
    result = ApplyResult("Apply_RequiredReboot") => hist.digestOk

\* C6: Download returns Download_Success only if the bytes received are as many
\* as expected and the digest of the staged bytes was compared with the
\* expected one and found equal.
C6_SuccessOnlyIfVerified ==
    (pc = "idle" /\ result = [op |-> "Download", code |-> "Download_Success"]) =>
        /\ otaCtx # NoCtx
        /\ otaCtx[1].offset = otaCtx[1].total_exp
        /\ Len(sent) = otaCtx[1].total_exp
        /\ hist.digestOk


-----------------------------------------------------------------------------
(* Properties of the record queries and updates *)

\* The stored record says that the running image is the staged one: it is
\* there, installRebooted is valid and true, stageVersion is valid and equal
\* to the version in the header of the primary slot.
RecordNamesRunning ==
    /\ hist.once.kv # NoRecord
    /\ Before.installRebooted_valid /\ Before.installRebooted
    /\ Before.stageVersion_valid
    /\ Before.stageVersion = ih_ver(primary.bytes)

\* C11: installed query.  nvImgUpgSt_installed returns false unless the record
\* is readable, installRebooted is valid and true and stageVersion is valid and
\* equal to the running version; when all hold (and no call fails) it returns
\* true with confirmed equal to "image_ok of the primary slot is set", any
\* other value of the flag giving false; it leaves the record as it was.
C11_InstalledQuery ==
    result.op = "installed" =>
        /\ kv = hist.once.kv
        /\ result.code # "false" => (RecordNamesRunning /\ hist.fault # 1)
        /\ (RecordNamesRunning /\ hist.fault = 0) =>
              result.code = IF primary.image_ok = "SET" THEN "true, confirmed"
                            ELSE "true, not confirmed"
        /\ result.code = "true, confirmed" => primary.image_ok = "SET"

\* The query answered true, not confirmed, for a slot whose flag is neither
\* set nor unset.
C11_Witness ==
    /\ result = [op |-> "installed", code |-> "true, not confirmed"]
    /\ RecordNamesRunning
    /\ primary.image_ok = "BAD"
    /\ hist.fault = 0

\* C12: settle guard.  nvImgUpgSt_settleInstalledCriteria applied to a record
\* whose stageInstalledCriteria_valid is false returns failure and writes
\* nothing: the record, and with it a persistent criteria settled before, is
\* as it was.
C12_SettleGuard ==
    (result.op = "settle" /\ hist.once.kv # NoRecord
        /\ ~Before.stageInstalledCriteria_valid) =>
        /\ result.code = "false"
        /\ kv = hist.once.kv

\* Settle was refused on a record that holds a settled criteria and no stage
\* criteria, as a first settle leaves it.
C12_Witness ==
    /\ result = [op |-> "settle", code |-> "false"]
    /\ hist.once.kv # NoRecord
    /\ ~Before.stageInstalledCriteria_valid
    /\ Before.persistentInstalledCriteria_valid
    /\ Before.persistentInstalledCriteria = "v1.0"
    /\ After.persistentInstalledCriteria = "v1.0"
    /\ hist.fault = 0

-----------------------------------------------------------------------------
(* Properties of Download *)

\* C13: verification failure.  When the bytes staged on the secondary device
\* do not have the digest the file entity expects, Download returns Failure
\* and the staged bytes are still in place; the step from the end of the
\* transfer to the return of Download, which contains the verification,
\* changes neither the secondary device nor the persistent record.
C13_VerificationFailure ==
    /\ []((pc = "idle" /\ result.op = "Download" /\ hist.mismatch) =>
            /\ result.code = "Failure"
            /\ SubSeq(dev, 1, Len(sent)) = sent
            /\ otaCtx # NoCtx /\ Len(sent) = otaCtx[1].total_exp)
    /\ [][(pc = "sending" /\ pc' = "idle") => (dev' = dev /\ kv' = kv)]_vars

\* Download failed on a complete transfer whose bytes, read back without a
\* failure, have another sha256 digest than the file entity names.
C13_Witness ==
    /\ pc = "idle" /\ result = [op |-> "Download", code |-> "Failure"]
    /\ hist.mismatch /\ ~hist.digestOk
    /\ hist.chunkCode = "Download_Success"
    /\ Len(sent) = DevSize - 2
    /\ SubSeq(dev, 1, Len(sent)) = sent
    /\ kv # NoRecord /\ Rec(kv).stageVersion_valid

\* The step is a Download that reaches OTACtx_Reinit.
StageStarts == pc = "idle" /\ stages' = stages + 1

\* The record after nvImgUpgSt_reset(false) of the record before the step.
RecordReset ==
    /\ kv' # NoRecord
    /\ Rec(kv') = IF kv = NoRecord THEN ZeroRecord ELSE ClearBeforeReserved(Rec(kv))

\* C14: stage start.  OTACtx_Reinit first tears down the context of an earlier
\* stage, then resets the record keeping the reserved region, then erases the
\* whole secondary device, all before a chunk is written: no context of an
\* earlier stage survives the call; the device is touched only after the
\* record was reset; the transfer starts on an erased device with a fresh
\* context and nothing accepted.  There is never more than one context.  The
\* record after the reset is compared with the one before it for calls in
\* which neither kv_get nor kv_set fails.
C14_StageStart ==
    /\ [](Len(otaCtx) <= 1)
    /\ [][StageStarts =>
            /\ otaCtx' = NoCtx \/ otaCtx'[1].offset = 0
            /\ otaCtx # NoCtx => bdInits' \in {bdInits - 1, bdInits}
            /\ (dev' # dev \/ bdInits' > bdInits \/ otaCtx' # NoCtx) =>
                  (kv' # NoRecord /\ (faults' = faults => RecordReset))
            /\ pc' = "sending" =>
                  /\ dev' = ErasedDev
                  /\ sent' = <<>>
                  /\ Len(otaCtx') = 1 /\ otaCtx'[1].offset = 0
                  /\ otaCtx'[1].image_header = ZeroHeader
                  /\ bdInits' = IF otaCtx # NoCtx THEN bdInits ELSE bdInits + 1
                  /\ kv' # NoRecord
                  /\ ~Rec(kv').stageVersion_valid
                  /\ ~Rec(kv').installRebooted_valid
                  /\ ~Rec(kv').stageInstalledCriteria_valid]_vars

\* A stage has started where an earlier one had left its context, its image
\* on the device and its record: the device is erased, the attempt fields of
\* the record are cleared and the reserved word and the settled criteria kept.
C14_Witness ==
    /\ pc = "sending" /\ sent = <<>> /\ stages = 1
    /\ dev = ErasedDev
    /\ otaCtx # NoCtx /\ otaCtx[1].offset = 0 /\ bdInits = 1
    /\ kv # NoRecord
    /\ ~After.stageVersion_valid /\ After.reserved = 1
    /\ After.persistentInstalledCriteria = "v1.0"

\* C15: context lifetime.  When Download has returned, with success or with
\* failure, no context exists and the secondary device is not left
\* initialised.
C15_ContextReleasedAtEnd ==
    (pc = "idle" /\ result.op = "Download") => (otaCtx = NoCtx /\ bdInits = 0)

\* C16: cooperative cancellation.  Once cancel has been requested on the
\* workflow of a running transfer, no step writes to the secondary device or
\* to the record or accepts a byte (what was written stays as it is), a chunk
\* delivered afterwards only asks the transport to stop, and Download returns
\* the result of Cancel, never a download success.
C16_Cancellation ==
    [][(wf.cancel /\ pc = "sending") =>
          /\ dev' = dev /\ kv' = kv /\ sent' = sent /\ otaCtx' = otaCtx
          /\ pc' \in {"sending", "idle"}
          /\ pc' = "sending" => (wf'.httpCancel /\ result' = result)
          /\ pc' = "idle" =>
                /\ result'.op = "Download"
                /\ result'.code \in {"Cancel_Success", "Cancel_UnableToCancel"}]_vars

\* Cancel was requested after a chunk had been written: the next delivery
\* stopped the transport, Download returned the result of Cancel, and the
\* bytes of the chunk are still on the device.
C16_Witness ==
    /\ pc = "idle" /\ result = [op |-> "Download", code |-> "Cancel_Success"]
    /\ wf.cancel /\ wf.httpCancel
    /\ sent # <<>> /\ Len(sent) < otaCtx[1].total_exp
    /\ SubSeq(dev, 1, Len(sent)) = sent
    /\ otaCtx[1].offset = Len(sent)

-----------------------------------------------------------------------------
(* Properties of the chunk callback *)

\* C17: device failure.  When read() or program() of the secondary device
\* fails in a chunk, the chunk returns Failure and the offset does not
\* advance; afterwards no chunk is programmed (the next callback only stops
\* the transport), Download returns Failure, and the bytes accepted before
\* the failure are on the device as they were written.
C17_DeviceFailure ==
    /\ [](hist.devFail =>
            /\ hist.chunkCode = "Failure"
            /\ result = [op |-> "Download", code |-> "Failure"]
            /\ otaCtx[1].offset = Len(sent)
            /\ SubSeq(dev, 1, Len(sent)) = sent)
    /\ [][(hist.devFail /\ pc = "sending") =>
            /\ dev' = dev /\ kv' = kv /\ sent' = sent
            /\ pc' \in {"sending", "idle"}
            /\ pc' = "sending" => wf'.httpCancel]_vars

\* program() failed in a chunk that followed accepted bytes; the transport
\* was stopped and Download returned Failure with those bytes in place.
C17_Witness ==
    /\ hist.devFail /\ faults = 1
    /\ pc = "idle" /\ result = [op |-> "Download", code |-> "Failure"]
    /\ wf.httpCancel
    /\ Len(sent) = 3
    /\ SubSeq(dev, 1, Len(sent)) = sent

\* The record holds, valid, the version of the header caught by the transfer.
StageVersionPersisted ==
    /\ kv # NoRecord
    /\ After.stageVersion_valid
    /\ After.stageVersion = ih_ver(otaCtx[1].image_header)

\* C18: stage version before body.  Whenever a byte at or beyond header_size
\* has been written to the device, or the offset has reached header_size, the
\* record holds the version of the staged header, valid; and when the chunk
\* that completes a header with a good magic cannot persist the version, it
\* returns Failure and nothing of it is written: the offset stays and the
\* device is erased from the accepted bytes on.
C18_StageVersionBeforeBody ==
    /\ (otaCtx # NoCtx /\ pc \in {"sending", "idle"}
          /\ (otaCtx[1].offset >= HeaderSize
               \/ \E i \in (HeaderSize + 1)..DevSize : dev[i] # EraseValue))
        => StageVersionPersisted
    /\ hist.svFail =>
          /\ hist.chunkCode = "Failure"
          /\ result = [op |-> "Download", code |-> "Failure"]
          /\ otaCtx[1].offset = Len(sent) /\ Len(sent) < HeaderSize
          /\ SubSeq(dev, 1, Len(sent)) = sent
          /\ \A i \in (Len(sent) + 1)..DevSize : dev[i] = EraseValue
          /\ ~After.stageVersion_valid

\* The version was persisted by the chunk that completed the header and the
\* body has been written after it.
C18_Witness ==
    /\ pc = "sending" /\ hist.chunkCode = "Download_Success"
    /\ otaCtx[1].offset > HeaderSize
    /\ dev[HeaderSize + 1] # EraseValue
    /\ StageVersionPersisted
    /\ After.stageVersion = "01"

-----------------------------------------------------------------------------
(* Properties of an unreadable record *)

\* The three queries fail and IsInstalled answers NotInstalled on store, read
\* with a kv_get that fails (gf) or not.
QueriesFail(store, gf) ==
    /\ ~nvImgUpgSt_installed(store, primary.bytes, primary.image_ok, gf, FALSE, FALSE).ok
    /\ ~nvImgUpgSt_installRebooted(store, gf).ok
    /\ ~nvImgUpgSt_persistentInstalledCriteria(store, INSTALLEDCRITERIA_MAXCHAR + 1, gf).ok
    /\ \A c \in Criteria :
          IsInstalled(store, c, IF gf THEN 1 ELSE 0) = "IsInstalled_NotInstalled"

\* C19: persistent-store errors degrade to "no attempt".  When kv_get fails,
\* or the store holds no item of the size of the record, the installed, the
\* install-rebooted and the persistent-criteria queries fail and IsInstalled
\* answers NotInstalled; the recovery routine started on such a store neither
\* confirms the image, nor settles, nor resets the record, nor forces a reset.
C19_UnreadableRecord ==
    /\ QueriesFail(kv, TRUE)
    /\ kv = NoRecord => QueriesFail(kv, FALSE)
    /\ hist.boot0.kv = NoRecord =>
          /\ kv = NoRecord
          /\ primary.image_ok = hist.boot0.image_ok
          /\ hist.settled = <<>>
          /\ pc \notin {"PostReboot_4", "PostReboot_5", "NVIC_SystemReset"}

\* The routine has run twice on a store without a record, under a test image
\* that is not confirmed, and has ended both times in main().
C19_Witness ==
    /\ pc = "main" /\ hist.runs = 2
    /\ hist.boot0.kv = NoRecord /\ kv = NoRecord
    /\ primary.image_ok = "UNSET"
    /\ faults = 0

-----------------------------------------------------------------------------
(* Properties of Apply *)

-----------------------------------------------------------------------------
(* Properties of the recovery routine, continued *)

\* The record and the flag with which the running run of the routine began.
RunStart == IF hist.runs = 2 THEN hist.once ELSE hist.boot0

\* store holds no attempt that names the image in bytes: it is unreadable, or
\* installRebooted is invalid, or stageVersion is invalid or another version.
NoAttempt(store, bytes) ==
    \/ store = NoRecord
    \/ ~Rec(store).installRebooted_valid
    \/ ~Rec(store).stageVersion_valid
    \/ Rec(store).stageVersion # ih_ver(bytes)

\* C21: confirm only after an Activate-requested reboot.  The routine changes
\* the confirmed flag only in its confirm step, from unset to set, and only
\* when the record then has installRebooted valid and true and stageVersion
\* valid and equal to the running version; it writes installRebooted only to
\* turn valid-and-false into true; and a run that began without an attempt
\* naming the running image leaves the flag as it was, writes nothing else to
\* the record, and reaches neither the reset of the record nor the forced
\* restart.
C21_ConfirmOnlyAfterActivate ==
    /\ [](NoAttempt(RunStart.kv, primary.bytes) =>
            /\ primary.image_ok = RunStart.image_ok
            /\ pc \notin {"PostReboot_4", "PostReboot_5", "NVIC_SystemReset"}
            /\ \/ kv = RunStart.kv
               \/ /\ RunStart.kv # NoRecord
                  /\ Rec(RunStart.kv).installRebooted_valid
                  /\ ~Rec(RunStart.kv).installRebooted
                  /\ kv = Stored([Rec(RunStart.kv) EXCEPT !.installRebooted = TRUE]))
    /\ [][(pc # "NVIC_SystemReset" /\ primary'.image_ok # primary.image_ok) =>
            /\ pc = "PostReboot_2"
            /\ primary.image_ok = "UNSET" /\ primary'.image_ok = "SET"
            /\ kv # NoRecord
            /\ Rec(kv).installRebooted_valid /\ Rec(kv).installRebooted
            /\ Rec(kv).stageVersion_valid
            /\ Rec(kv).stageVersion = ih_ver(primary.bytes)]_vars
    /\ [][(pc = "PostReboot_1" /\ kv' # kv) =>
            /\ kv # NoRecord
            /\ Rec(kv).installRebooted_valid /\ ~Rec(kv).installRebooted
            /\ kv' = Stored([Rec(kv) EXCEPT !.installRebooted = TRUE])]_vars

\* The routine has confirmed the image it found unconfirmed, on a record whose
\* installRebooted it had just raised.
C21_Witness ==
    /\ pc = "PostReboot_3" /\ hist.runs = 1
    /\ hist.boot0.image_ok = "UNSET" /\ primary.image_ok = "SET"
    /\ ~NoAttempt(hist.boot0.kv, primary.bytes)
    /\ ~Rec(hist.boot0.kv).installRebooted
    /\ After.installRebooted

\* C22: the step of the routine that follows a confirmation that did not take
\* resets the record, reserved region and persistent criteria kept, and only
\* then forces the restart.  When that reset was written, the run after the
\* forced restart, whatever image the bootloader left in the primary slot,
\* finds installRebooted invalid, changes nothing and forces no further
\* restart, and it does reach the application.
C22_RevertWithoutRebootLoop ==
    /\ [][pc = "PostReboot_5" =>
            /\ pc' = "NVIC_SystemReset"
            /\ primary' = primary
            /\ faults' = faults =>
                 /\ kv # NoRecord
                 /\ kv' = Stored(ClearBeforeReserved(Rec(kv)))]_vars
    /\ []((/\ hist.runs = 2 /\ hist.forced = 1
           /\ hist.once.kv # NoRecord
           /\ ~Before.installRebooted_valid) =>
            /\ pc \notin {"PostReboot_4", "PostReboot_5", "NVIC_SystemReset"}
            /\ kv = hist.once.kv
            /\ primary.image_ok = hist.once.image_ok)
    /\ (/\ pc = "NVIC_SystemReset" /\ hist.runs = 1
        /\ kv # NoRecord /\ ~After.installRebooted_valid)
          ~> (/\ pc = "main" /\ hist.runs = 2 /\ hist.forced = 1
              /\ kv = hist.once.kv)

C22_Witness ==
    /\ pc = "main" /\ hist.runs = 2 /\ hist.forced = 1
    /\ hist.once.kv # NoRecord
    /\ ~Before.installRebooted_valid
    /\ primary.image_ok # "SET"
    /\ kv = hist.once.kv

\* C23: a restart that cuts the routine after the confirmed flag is set, be it
\* before the settle, between the settle and the reset of the record, or after
\* that reset, loses nothing: with no call failing, the run on the next boot
\* ends in the application with persistentInstalledCriteria equal to the
\* criteria the Activate stored, the attempt fields cleared and the reserved
\* field as it was; and that run does end.
Activated(store, bytes) ==
    /\ ~NoAttempt(store, bytes)
    /\ Rec(store).stageInstalledCriteria_valid

CutAfterConfirm ==
    /\ hist.runs = 2
    /\ hist.cut \in {"PostReboot_3", "PostReboot_4", "main"}
    /\ hist.once.image_ok = "SET"
    /\ Activated(hist.boot0.kv, primary.bytes)

C23_CrashTolerantConfirm ==
    /\ []((CutAfterConfirm /\ pc = "main" /\ faults = 0) =>
            /\ Settled(Rec(hist.boot0.kv).stageInstalledCriteria)
            /\ kv = Stored(ClearBeforeReserved(Rec(kv)))
            /\ After.reserved = Rec(hist.boot0.kv).reserved
            /\ primary.image_ok = "SET")
    /\ (CutAfterConfirm /\ pc = "PostReboot_1")
          ~> (RecoveryEnded /\ (faults = 0 => pc = "main"))

C23_Witness ==
    /\ CutAfterConfirm /\ pc = "main" /\ faults = 0
    /\ hist.cut = "PostReboot_4"
    /\ hist.boot0.image_ok = "UNSET"
    /\ Rec(hist.once.kv).installRebooted_valid
    /\ ~Rec(hist.once.kv).stageInstalledCriteria_valid
    /\ Settled("v2.0")
    /\ ~After.installRebooted_valid

----------------------------------------------------------------------------
\* Properties of the writer, continued

\* The bytes of the stream past the last whole program unit, and the unit they
\* lie in.
TailStart == AlignDown(Len(sent), geom.program_size)
TailOpen == Len(sent) % geom.program_size # 0
TailOnDevice == \A i \in (TailStart + 1)..Len(sent) : dev[i] = sent[i]

\* The unit read before the last program lies inside the read block.
ReadInside(offset, P, R) == (AlignDown(offset, P) - AlignDown(offset, R)) + P <= R

\* C24 (as stated): the bytes of a chunk past its last whole program unit are
\* held back and are not on the device while no later chunk fills the unit.
C24_DeferredTail ==
    (LastChunkAccepted /\ TailOpen) =>
        \A i \in (TailStart + 1)..Len(sent) : dev[i] = EraseValue

\* C24 (amended): the bytes of a chunk past its last whole program unit are
\* programmed within the same chunk call: the unit they lie in is read,
\* the bytes are spliced in at its start and the whole unit is programmed, the
\* rest of the unit keeping what the device held.  A stream that ends
\* mid-unit has its last bytes on the device.
C24_TailProgrammedAtOnce ==
    /\ []((LastChunkAccepted /\ TailOpen) => TailOnDevice)
    /\ []((pc = "idle" /\ result.code = "Download_Success" /\ TailOpen) => TailOnDevice)
    /\ [][(/\ pc = "sending" /\ sent' # sent
           /\ hist'.chunkCode = "Download_Success"
           /\ Len(sent') % geom.program_size # 0
           /\ ReadInside(AlignDown(Len(sent'), geom.program_size), geom.program_size,
                         otaCtx[1].secondary_bd_readblock_size)) =>
            \A i \in (Len(sent') + 1)..Len(dev) : dev'[i] = dev[i]]_vars

C24_Witness ==
    /\ pc = "idle" /\ result.code = "Download_Success"
    /\ geom.program_size = 3
    /\ Len(sent) = DevSize - 1
    /\ sent[Len(sent)] # EraseValue
    /\ TailOnDevice
    /\ dev[DevSize] = EraseValue

\* The chunk call that completes a header with a wrong magic.
HeaderRefused == pc = "sending" /\ ~hist.badHeader /\ hist'.badHeader

\* C25 (as stated): on the chunk call that finds the header's magic invalid the
\* writer still runs, so the chunk's bytes, those of the header among them,
\* are on the device after the call.
C25_WriterStillRuns ==
    [][HeaderRefused =>
         \A i \in (otaCtx[1].offset + 1)..HeaderSize :
            dev'[i] = otaCtx'[1].image_header[i]]_vars

\* C25 (amended): the chunk call that finds the header's magic invalid returns
\* Failure before the writer runs: the device, the record, the offset and the
\* accepted bytes are what they were before the call, and only the header
\* buffer of the context has taken the chunk's bytes.
C25_HeaderGateBeforeWriter ==
    /\ [][HeaderRefused =>
            /\ dev' = dev
            /\ kv' = kv
            /\ sent' = sent
            /\ otaCtx'[1].offset = otaCtx[1].offset
            /\ otaCtx' = <<[otaCtx[1] EXCEPT !.image_header = otaCtx'[1].image_header]>>
            /\ result'.code = "Failure"
            /\ pc' = "sending"]_vars
    /\ [](hist.badHeader => SubSeq(dev, 1, Len(sent)) = sent /\ Len(sent) < HeaderSize)

C25_Witness ==
    /\ hist.badHeader
    /\ pc = "sending" /\ result.code = "Failure"
    /\ sent = <<>> /\ dev = ErasedDev
    /\ ih_magic(otaCtx[1].image_header) # IMAGE_MAGIC
    /\ \E i \in 1..HeaderSize : otaCtx[1].image_header[i] # EraseValue

----------------------------------------------------------------------------
\* Properties of the integrity verifier

CeilDiv(a, b) == (a + b - 1) \div b

\* C26: VerifySignature reads the device in blocks of exactly the read-block
\* size R at offsets 0, R, 2R, ... and gives the hash what it read, in that
\* order; of a last block that the file only partly fills it gives the first
\* SizeInBytes mod R bytes.  When no read fails the hash has been given exactly
\* the device contents at [0, SizeInBytes), in ceil(SizeInBytes / R) reads,
\* and the method returns true exactly when the digest of those bytes is the
\* expected one; the loop ends after at most that many reads.
C26_VerifierCoverage ==
    pc = "verified" =>
        LET v == hist.vs[1]
            R == otaCtx[1].secondary_bd_readblock_size
            S == args.file.SizeInBytes
        IN  /\ \A k \in 1..Len(v.reads) : v.reads[k] = [addr |-> (k - 1) * R, size |-> R]
            /\ Len(v.reads) <= CeilDiv(S, R)
            /\ Len(v.fed) <= S
            /\ v.fed = SubSeq(dev, 1, Len(v.fed))
            /\ v.ok => /\ Len(v.fed) = S
                       /\ Len(v.reads) = CeilDiv(S, R)
            /\ ~v.ok => Len(v.fed) = (Len(v.reads) - 1) * R
            /\ v.ret <=> (v.ok /\ args.file.hashValue = HashOf(SubSeq(dev, 1, S)))

C26_Witness ==
    /\ pc = "verified"
    /\ hist.vs[1].ok /\ hist.vs[1].ret
    /\ otaCtx[1].secondary_bd_readblock_size = 2
    /\ args.file.SizeInBytes = DevSize - 1
    /\ Len(hist.vs[1].reads) = CeilDiv(DevSize - 1, 2)
    /\ hist.vs[1].reads[Len(hist.vs[1].reads)].size = 2
    /\ hist.vs[1].fed = SubSeq(dev, 1, DevSize - 1)
    /\ dev[DevSize] # dev[DevSize - 1]

----------------------------------------------------------------------------
\* Properties of the download progress

\* A step of the chunk callback, and one that accepted its chunk.
ChunkStep == pc = "sending" /\ pc' \in {"sending", "halted"}
ChunkAccepted == ChunkStep /\ sent' # sent

\* C27: dl_prog.offset is 0 when a Stage starts sending; a chunk callback that
\* returns success advances it by exactly the length of its chunk, which it
\* has written to the device starting at the old offset; any other chunk
\* callback leaves it as it was.  While the transfer runs it is the total
\* length of the chunks accepted so far, and it never decreases.
C27_ProgressOffset ==
    /\ [](pc = "sending" => otaCtx[1].offset = Len(sent))
    /\ [][(pc = "idle" /\ pc' = "sending") =>
            /\ otaCtx'[1].offset = 0 /\ sent' = <<>>
            /\ otaCtx'[1].total_exp = args'.file.SizeInBytes]_vars
    /\ [][ChunkAccepted =>
            /\ hist'.chunkCode = "Download_Success"
            /\ Len(sent') > Len(sent)
            /\ SubSeq(sent', 1, Len(sent)) = sent
            /\ otaCtx'[1].offset = otaCtx[1].offset + (Len(sent') - Len(sent))
            /\ \A i \in (otaCtx[1].offset + 1)..otaCtx'[1].offset : dev'[i] = sent'[i]]_vars
    /\ [][(ChunkStep /\ hist'.chunkCode # "Download_Success") =>
            otaCtx'[1].offset = otaCtx[1].offset /\ sent' = sent]_vars
    /\ [][(ChunkStep /\ hist'.chunkCode = "Download_Success") =>
            otaCtx'[1].offset >= otaCtx[1].offset]_vars

C27_Witness ==
    /\ pc = "sending"
    /\ hist.devFail /\ hist.chunkCode = "Failure"
    /\ otaCtx[1].offset = HeaderSize + 1
    /\ Len(sent) = HeaderSize + 1
    /\ SubSeq(dev, 1, Len(sent)) = sent

\* C28: whatever the offset, when the read block is at least as large as the
\* program unit, the unit that bd_read_program_unit copies lies inside the
\* block it has just read, and its two assertions hold: no call of the writer
\* halts on them.
C28_ReadInsideBlock ==
    LET P == otaCtx[1].secondary_bd_progunit_size
        R == otaCtx[1].secondary_bd_readblock_size
    IN  (otaCtx # NoCtx /\ R >= P) =>
            /\ pc # "halted"
            /\ \A offset \in 0..(DevSize - 1) :
                  /\ ReadInside(offset, P, R)
                  /\ bd_read_program_unit(dev, geom, P, R, offset, FALSE, "00").rc
                        # "assert"

----------------------------------------------------------------------------
\* Properties of the settled criteria

PersistentOf(store) ==
    IF store = NoRecord THEN <<FALSE, "">>
    ELSE <<Rec(store).persistentInstalledCriteria_valid,
           Rec(store).persistentInstalledCriteria>>

\* C29: persistentInstalledCriteria changes only at a settle that succeeds;
\* once valid, no start of a Stage, chunk, Activate, failed settle, restart or
\* reset of the record by the recovery routine clears or alters it.
C29_SettledMarkerDurable ==
    [][PersistentOf(kv') # PersistentOf(kv) =>
         LET st == nvImgUpgSt_settleInstalledCriteria(kv, FALSE, FALSE)
         IN  st.ok /\ kv' = st.kv]_vars

----------------------------------------------------------------------------
\* Properties of cancellation in the platform layer

\* C30: an Apply that the platform layer reports as Failure_Cancelled has not
\* marked the secondary slot pending, has not written installRebooted and has
\* not asked for a reboot.
C30_CancelledApplyInert ==
    wf.reported = "Failure_Cancelled" =>
        /\ \A i \in 1..Len(hist.applyLog) :
              hist.applyLog[i] \notin {"pending", "rebooted", "reboot"}
        /\ ~wf.reboot

----------------------------------------------------------------------------
\* Properties of cancellation before an operation starts

\* The handler's Download or Apply is entered with the workflow's cancel flag
\* already set (no other step leaves the workflow idle and its flags alone).
EnteredCancelled == pc = "idle" /\ wf.cancel /\ wf' = wf
UntouchedByEntry ==
    /\ kv' = kv /\ dev' = dev /\ otaCtx' = otaCtx /\ bdInits' = bdInits
    /\ boot' = boot /\ secId' = secId /\ stages' = stages /\ sent' = sent
    /\ pc' = "idle"
    /\ hist'.applyLog = <<>> \/ hist'.applyLog = hist.applyLog
CancelCodes == {"Cancel_Success", "Cancel_UnableToCancel"}

\* C31 (as stated): a Download or Apply entered with cancellation requested
\* returns the result of Cancel and touches no state.
C31_CancelBeforeStart ==
    [][EnteredCancelled =>
         /\ UntouchedByEntry
         /\ result'.op \in {"Download", "Apply"}
         /\ result'.code \in CancelCodes]_vars

\* C31 (amended): a Download or Apply entered with cancellation requested
\* touches no state: no context torn down or created, record, device, pending
\* mark and reboot request as they were.  It returns the result of Cancel,
\* except that Apply, which looks at the installed criteria first, returns
\* Failure when the criteria is missing or empty.
C31_CancelBeforeStartInert ==
    [][EnteredCancelled =>
         /\ UntouchedByEntry
         /\ \/ result'.op \in {"Download", "Apply"} /\ result'.code \in CancelCodes
            \/ result' = ApplyResult("Failure")]_vars

C31_Witness ==
    /\ pc = "idle" /\ wf.cancel
    /\ result = [op |-> "Download", code |-> "Cancel_Success"]
    /\ stages = 0 /\ sent = <<>>
    /\ otaCtx # NoCtx /\ otaCtx[1].offset > 0
    /\ dev # ErasedDev
    /\ kv # NoRecord /\ Rec(kv).stageVersion_valid

----------------------------------------------------------------------------
(* MbedPlatformLayer: operations on worker threads, Cancel and Idle *)

\* One call of AsyncTaskCallback: the value it returned (ret), where its
\* thread is (pc), what the content handler returned (handler), the result
\* held by the operation (result), and the calls of WorkCompletionCallback
\* made so far with the result passed (signals).
NewTask(type, startOk) ==
    [type |-> type,
     pc |-> IF startOk THEN "handler" ELSE "unstarted",
     ret |-> IF startOk THEN type \o "_InProgress" ELSE "Failure",
     handler |-> "none", result |-> "Failure", signals |-> <<>>]

TaskRunning(t) == t.pc \in {"handler", "check", "clear", "report"}
NoTaskRunning == \A i \in DOMAIN workers.tasks : ~TaskRunning(workers.tasks[i])

\* rtos::Thread::~Thread ends the thread if it is still running.
ThreadDestroyed(tasks, i) ==
    IF i # 0 /\ TaskRunning(tasks[i]) THEN [tasks EXCEPT ![i].pc = "terminated"]
    ELSE tasks

\* mbed_adu_core_impl.hpp 261-393: the thread object of the worker is replaced
\* by a new one, and the task is started on it (startOk: Thread::start
\* returned osOK).
AsyncTaskCallback(type, startOk) ==
    /\ Len(workers.tasks) < MaxTasks
    /\ workers' = [workers EXCEPT
                      !.thread[type] = Len(workers.tasks) + 1,
                      !.tasks = Append(ThreadDestroyed(workers.tasks, workers.thread[type]),
                                       NewTask(type, startOk))]
    /\ UNCHANGED <<ext, d2c, threads>>
    /\ UNCHANGED deviceVars

\* An operation that tests the flag whatever its kind.
Task_Handler_Restorable(i, handlerOk, code) ==
    /\ i \in DOMAIN workers.tasks
    /\ workers.tasks[i].pc = "handler"
    /\ workers' = [workers EXCEPT
                      !.tasks[i] = IF ~handlerOk THEN [@ EXCEPT !.pc = "report"]
                                   ELSE [@ EXCEPT !.handler = code, !.result = code,
                                                  !.pc = "check"]]
    /\ UNCHANGED <<ext, d2c, threads>>
    /\ UNCHANGED deviceVars

\* MbedPlatformLayer::Download, Backup, Install, Apply, Restore up to the
\* return of the content handler (handlerOk: GetUpdateManifestHandler found a
\* handler; code: what the handler's operation returned).
Task_Handler(i, handlerOk, code) ==
    /\ i \in DOMAIN workers.tasks
    /\ workers.tasks[i].pc = "handler"
    /\ workers' = [workers EXCEPT
                      !.tasks[i] = IF ~handlerOk THEN [@ EXCEPT !.pc = "report"]
                                   ELSE [@ EXCEPT !.handler = code, !.result = code,
                                                  !.pc = IF workers.tasks[i].type = "Restore"
                                                         THEN "report" ELSE "check"]]
    /\ UNCHANGED <<ext, d2c, threads>>
    /\ UNCHANGED deviceVars

\* if (_IsCancellationRequested) result = Failure_Cancelled
Task_Check(i) ==
    /\ i \in DOMAIN workers.tasks
    /\ workers.tasks[i].pc = "check"
    /\ workers' = [workers EXCEPT
                      !.tasks[i] = IF wf.IsCancellationRequested
                                   THEN [@ EXCEPT !.result = "Failure_Cancelled",
                                                  !.pc = "clear"]
                                   ELSE [@ EXCEPT !.pc = "report"]]
    /\ UNCHANGED <<ext, d2c, threads>>
    /\ UNCHANGED deviceVars

\* _IsCancellationRequested = false
Task_Clear(i) ==
    /\ i \in DOMAIN workers.tasks
    /\ workers.tasks[i].pc = "clear"
    /\ workers' = [workers EXCEPT !.tasks[i].pc = "report"]
    /\ wf' = [wf EXCEPT !.IsCancellationRequested = FALSE]
    /\ UNCHANGED <<ext, d2c, threads>>
    /\ UNCHANGED <<kv, primary, boot, dev, geom, secId, otaCtx, bdInits, pc, args, result,
                   sent, hist, faults, stages>>

\* workCompletionData->WorkCompletionCallback(token, result, true)
Task_Report(i) ==
    /\ i \in DOMAIN workers.tasks
    /\ workers.tasks[i].pc = "report"
    /\ workers' = [workers EXCEPT
                      !.tasks[i] = [@ EXCEPT !.signals = Append(@, workers.tasks[i].result),
                                             !.pc = "finished"]]
    /\ UNCHANGED <<ext, d2c, threads>>
    /\ UNCHANGED deviceVars

\* MbedPlatformLayer::Cancel, from the main thread (handlerOk: a content
\* handler was found; requestOk: its Cancel made workflow_request_cancel).
Cancel(handlerOk, requestOk) ==
    /\ workers.cancels < MaxCancels
    /\ workers' = [workers EXCEPT !.cancels = @ + 1]
    /\ wf' = [wf EXCEPT !.IsCancellationRequested = TRUE,
                        !.cancel = wf.cancel \/ (handlerOk /\ requestOk)]
    /\ UNCHANGED <<ext, d2c, threads>>
    /\ UNCHANGED <<kv, primary, boot, dev, geom, secId, otaCtx, bdInits, pc, args, result,
                   sent, hist, faults, stages>>

\* MbedPlatformLayer::Idle
Idle ==
    /\ wf.IsCancellationRequested
    /\ wf' = [wf EXCEPT !.IsCancellationRequested = FALSE]
    /\ UNCHANGED agentVars
    /\ UNCHANGED <<kv, primary, boot, dev, geom, secId, otaCtx, bdInits, pc, args, result,
                   sent, hist, faults, stages>>

HandlerCodes == {"Success", "Failure"}

\* Operations run one at a time, as the agent's workflow starts them; Cancel
\* and Idle come from the main thread at any moment.
NextCancelFlag ==
    \/ \E type \in WorkerTypes, startOk \in BOOLEAN :
          NoTaskRunning /\ AsyncTaskCallback(type, startOk)
    \/ \E i \in 1..MaxTasks, handlerOk \in BOOLEAN, code \in HandlerCodes :
          Task_Handler(i, handlerOk, code)
    \/ \E i \in 1..MaxTasks : Task_Check(i)
    \/ \E i \in 1..MaxTasks : Task_Clear(i)
    \/ \E i \in 1..MaxTasks : Task_Report(i)
    \/ \E handlerOk \in BOOLEAN, requestOk \in BOOLEAN : Cancel(handlerOk, requestOk)
    \/ Idle

\* The agent on a device on which nothing was staged.
InitAgent ==
    InitStage /\ kv = NoRecord /\ otaCtx = NoCtx /\ dev = ErasedDev /\ bdInits = 0

SpecCancelFlag == InitAgent /\ [][NextCancelFlag]_vars

\* The callbacks are called at any moment, also while a task runs.
NextWorkers ==
    \/ \E type \in WorkerTypes, startOk \in BOOLEAN : AsyncTaskCallback(type, startOk)
    \/ \E i \in 1..MaxTasks, handlerOk \in BOOLEAN, code \in HandlerCodes :
          Task_Handler(i, handlerOk, code)
    \/ \E i \in 1..MaxTasks : Task_Check(i)
    \/ \E i \in 1..MaxTasks : Task_Clear(i)
    \/ \E i \in 1..MaxTasks : Task_Report(i)
    \/ \E handlerOk \in BOOLEAN, requestOk \in BOOLEAN : Cancel(handlerOk, requestOk)
    \/ Idle

SpecWorkers == InitAgent /\ [][NextWorkers]_vars

----------------------------------------------------------------------------
\* Properties of the platform layer's cancellation flag and worker threads

Cancellable == {"Download", "Backup", "Install", "Apply"}
TaskAt(i, p) == i \in DOMAIN workers.tasks /\ workers.tasks[i].pc = p
\* Task i leaves the position p in this step.
TaskLeaves(i, p) == TaskAt(i, p) /\ workers'.tasks[i].pc # p
CancelledTasks ==
    {i \in DOMAIN workers.tasks : workers.tasks[i].result = "Failure_Cancelled"}

\* C32: an operation of the kinds Download, Backup, Install and Apply that
\* finds the flag set once its content handler has returned (Cancel was called
\* and neither Idle nor another operation has cleared the flag since) has its
\* result replaced by Failure_Cancelled and clears the flag; finding it unset
\* it keeps the handler's result.  Restore never tests the flag and reports the
\* handler's result.  Idle clears the flag.  No more operations are cancelled
\* than Cancel was called.
C32_CancellationFlag ==
    /\ [](/\ Cardinality(CancelledTasks) <= workers.cancels
          /\ \A i \in DOMAIN workers.tasks :
                LET t == workers.tasks[i] IN
                /\ t.type = "Restore" => t.result # "Failure_Cancelled"
                /\ t.signals # <<>> => t.signals[1] = t.result
                /\ t.result # "Failure_Cancelled" /\ t.handler # "none"
                      => t.result = t.handler)
    /\ [][/\ \A i \in 1..MaxTasks :
               /\ TaskLeaves(i, "handler") /\ workers.tasks[i].type \in Cancellable
                     /\ workers'.tasks[i].handler # "none"
                     => workers'.tasks[i].pc = "check"
               /\ TaskLeaves(i, "check") =>
                     IF wf.IsCancellationRequested
                     THEN /\ workers'.tasks[i].result = "Failure_Cancelled"
                          /\ workers'.tasks[i].pc = "clear"
                     ELSE /\ workers'.tasks[i].result = workers.tasks[i].handler
                          /\ workers'.tasks[i].pc = "report"
               /\ TaskLeaves(i, "clear") =>
                     /\ ~wf'.IsCancellationRequested
                     /\ workers'.tasks[i].pc = "report"
               /\ TaskLeaves(i, "handler") /\ workers.tasks[i].type = "Restore"
                     => /\ workers'.tasks[i].pc = "report"
                        /\ wf'.IsCancellationRequested = wf.IsCancellationRequested
          /\ (wf.IsCancellationRequested /\ ~wf'.IsCancellationRequested
                 /\ workers' = workers) => wf' = [wf EXCEPT !.IsCancellationRequested = FALSE]
         ]_vars

\* A Download was cancelled by the one call of Cancel and has reported it, and a
\* Restore that ran with the flag set has reported what its handler returned.
C32_Witness ==
    /\ workers.cancels = 1
    /\ ~wf.IsCancellationRequested
    /\ \E i \in DOMAIN workers.tasks :
          /\ workers.tasks[i].type = "Download"
          /\ workers.tasks[i].handler = "Success"
          /\ workers.tasks[i].signals = <<"Failure_Cancelled">>
    /\ \E i \in DOMAIN workers.tasks :
          /\ workers.tasks[i].type = "Restore"
          /\ workers.tasks[i].signals = <<"Success">>

\* C33: a callback that returned its InProgress code has, once its thread is
\* no longer running, invoked WorkCompletionCallback exactly once, with the
\* result of the operation, also when another task of the same type was
\* started before it finished; no task invokes it twice; a callback whose
\* thread did not start returned Failure and invokes nothing.
C33_ExactlyOnceCompletion ==
    \A i \in DOMAIN workers.tasks :
       LET t == workers.tasks[i] IN
       /\ Len(t.signals) <= 1
       /\ t.ret = t.type \o "_InProgress" /\ ~TaskRunning(t)
             => t.signals = <<t.result>>
       /\ t.ret = "Failure" => t.signals = <<>> /\ t.pc = "unstarted"

----------------------------------------------------------------------------
(* ExtensionManager: the content handler cache *)

\* ADUC_Result_Failure is 0 and success codes are positive.
IsAducResultCodeSuccess(code) == code # "Failure"

\* extension_manager.cpp 126-207.  result starts as ADUC_Result_Failure; the
\* cached handler, if any, is read into *handler; the early exit is taken when
\* result is a success and *handler is set; otherwise a handler is created for
\* a supported type, and emplace() stores it unless the type has an entry.
LoadUpdateContentHandlerExtension(updateType, handlerArgNull) ==
    LET result0 == "Failure"
        cached == ext.contentHandlers[updateType]
        hit == IsAducResultCodeSuccess(result0) /\ cached # 0
        supported == updateType \in SupportedTypes
        made == ext.created + 1
        handler == IF hit THEN cached ELSE IF supported THEN made ELSE cached
    IN
    /\ ext.created < MaxHandlers
    /\ ext' =
          IF handlerArgNull
          THEN [ext EXCEPT !.ret = <<[updateType |-> updateType, code |-> "Failure",
                                      handler |-> 0]>>]
          ELSE IF hit
          THEN [ext EXCEPT !.ret = <<[updateType |-> updateType, code |-> result0,
                                      handler |-> cached]>>]
          ELSE IF handler = 0
          THEN [ext EXCEPT !.ret = <<[updateType |-> updateType, code |-> "Failure",
                                      handler |-> 0]>>]
          ELSE [ext EXCEPT
                   !.created = IF supported THEN made ELSE @,
                   !.live = IF supported THEN @ \cup {made} ELSE @,
                   !.contentHandlers[updateType] = IF cached = 0 THEN handler ELSE cached,
                   !.ret = <<[updateType |-> updateType, code |-> "Success",
                              handler |-> handler]>>]
    /\ UNCHANGED <<workers, d2c, threads>>
    /\ UNCHANGED deviceVars

\* extension_manager.cpp 240-248: every cached handler is deleted and the
\* cache is emptied.
UnloadAllUpdateContentHandlers ==
    /\ ext.ret # <<>>
    /\ ext' = [ext EXCEPT
                  !.live = @ \ {ext.contentHandlers[u] : u \in UpdateTypes},
                  !.contentHandlers = [u \in UpdateTypes |-> 0],
                  !.ret = <<>>]
    /\ UNCHANGED <<workers, d2c, threads>>
    /\ UNCHANGED deviceVars

NextExtensions ==
    \/ \E updateType \in UpdateTypes, handlerArgNull \in BOOLEAN :
          LoadUpdateContentHandlerExtension(updateType, handlerArgNull)
    \/ UnloadAllUpdateContentHandlers

SpecExtensions == InitAgent /\ [][NextExtensions]_vars

\* C34: a load of a supported update type returns the handler the cache holds
\* for the type, the only handler alive that was created for it, so that
\* repeated loads create one handler and return that one; a load of an
\* unsupported type returns a failure and no handler and caches nothing.
C34_HandlerCache ==
    /\ ext.live = {ext.contentHandlers[u] : u \in UpdateTypes} \ {0}
    /\ \A u \in UpdateTypes \ SupportedTypes : ext.contentHandlers[u] = 0
    /\ ext.ret # <<>> =>
          LET r == ext.ret[1] IN
          IF r.code = "Failure" THEN r.handler = 0
          ELSE /\ r.updateType \in SupportedTypes
               /\ r.handler # 0
               /\ r.handler = ext.contentHandlers[r.updateType]

----------------------------------------------------------------------------
\* Properties of the secondary device's init() and deinit() calls

\* The init() calls not yet matched by a deinit() are those of the context
\* that exists: one if there is a context, none if there is none.
InitsBalanced == bdInits = IF otaCtx = NoCtx THEN 0 ELSE 1

\* C35: every init() of the secondary device made by OTACtx_Reinit is matched
\* by one deinit() before the next init(): no step of the handler that starts
\* with the calls balanced leaves the device initialised without a context (as
\* a failed erase() in OTACtx_Reinit would) or initialised twice.
C35_InitDeinitBalanced == [][InitsBalanced => InitsBalanced']_vars

----------------------------------------------------------------------------
(* D2C messaging: d2c_messaging.cpp *)

INT_MAX == 2147483647

\* g_defaultHttpStatusRetryInfo, in its order; calc: retryTimestampCalcFunc is
\* not NULL.
g_defaultHttpStatusRetryInfo ==
    <<[httpStatusMin |-> 200, httpStatusMax |-> 299, calc |-> FALSE, maxRetry |-> 0],
      [httpStatusMin |-> 400, httpStatusMax |-> 400, calc |-> FALSE, maxRetry |-> 0],
      [httpStatusMin |-> 429, httpStatusMax |-> 429, calc |-> TRUE, maxRetry |-> INT_MAX],
      [httpStatusMin |-> 413, httpStatusMax |-> 413, calc |-> TRUE, maxRetry |-> 0],
      [httpStatusMin |-> 400, httpStatusMax |-> 499, calc |-> TRUE, maxRetry |-> INT_MAX],
      [httpStatusMin |-> 503, httpStatusMax |-> 503, calc |-> TRUE, maxRetry |-> INT_MAX],
      [httpStatusMin |-> 500, httpStatusMax |-> 599, calc |-> TRUE, maxRetry |-> INT_MAX],
      [httpStatusMin |-> 0, httpStatusMax |-> INT_MAX, calc |-> TRUE, maxRetry |-> INT_MAX]>>

\* g_defaultRetryStrategy.maxRetries
maxRetries == INT_MAX

\* The ghost record of a message when it is submitted.
NewLog == [terminal |-> <<>>, completed |-> 0, notified |-> "none", freed |-> FALSE,
           handed |-> 0, late |-> FALSE]

\* SetMessageStatus: [msg, log].
SetMessageStatus(log, message, status) ==
    [msg |-> [message EXCEPT !.status = status],
     log |-> IF message.statusChangedCallback
             THEN [log EXCEPT ![message.content].notified = status]
             ELSE log]

\* A completion that leaves the message's data in place.
OnMessageProcessingCompleted_Kept(log, message, status) ==
    IF message.content = 0 THEN [msg |-> message, log |-> log]
    ELSE LET s == SetMessageStatus(log, message, status)
         IN  [msg |-> s.msg,
              log |-> [s.log EXCEPT
                          ![message.content].terminal = Append(@, status),
                          ![message.content].completed =
                              IF message.completedCallback THEN @ + 1 ELSE @]]

\* OnMessageProcessingCompleted: [msg, log].  Nothing is done for a message
\* without content; otherwise the status is set, completedCallback is called
\* if there is one, and DestroyMessageData frees the content and zeroes the
\* message.
OnMessageProcessingCompleted(log, message, status) ==
    IF message.content = 0 THEN [msg |-> message, log |-> log]
    ELSE LET s == SetMessageStatus(log, message, status)
         IN  [msg |-> NoMessage,
              log |-> [s.log EXCEPT
                          ![message.content].terminal = Append(@, status),
                          ![message.content].completed =
                              IF message.completedCallback THEN @ + 1 ELSE @,
                          ![message.content].freed = TRUE]]

\* ADUC_D2C_Default_Message_Transport_Function on the message of context ctx:
\* [ctx, log, owed].  outcome "nohandle": no cloud service handle, nothing is
\* sent; "ok": ClientHandle_SendReportedState accepted the message and will
\* call back once; "error": it refused, the message is completed as Failed.
TransportOutcomes == {"ok", "nohandle", "error"}
Transport(log, ctx, outcome) ==
    LET id == ctx.message.content
        handedLog == [log EXCEPT ![id].handed = @ + 1,
                                 ![id].late = @ \/ log[id].terminal # <<>>]
        r == IF outcome = "ok"
             THEN SetMessageStatus(handedLog, ctx.message, "Waiting_For_Response")
             ELSE IF outcome = "error"
             THEN OnMessageProcessingCompleted(handedLog, ctx.message, "Failed")
             ELSE [msg |-> ctx.message, log |-> handedLog]
    IN  [ctx |-> [ctx EXCEPT !.message = r.msg,
                             !.nextRetryTimeStampEpoch =
                                 IF outcome = "ok" THEN @ ELSE @ + FATAL_ERROR_WAIT_TIME_SEC],
         log |-> r.log,
         owed |-> IF outcome = "ok" THEN 1 ELSE 0]

\* A ProcessMessage that takes the pending message whatever the message in
\* flight is doing.
ProcessMessage_Impatient(d, type, outcome) ==
    LET ctx == d.s_messageProcessingContext[type]
        pend == d.s_pendingMessageStore[type]
        old == OnMessageProcessingCompleted(d.log, ctx.message, "Replaced")
        taken == SetMessageStatus(old.log, [pend EXCEPT !.attempts = 0], "In_Progress")
        picked == [message |-> taken.msg, retries |-> 0, nextRetryTimeStampEpoch |-> d.now]
        usePending == pend.content # 0
        shouldSend ==
            \/ usePending
            \/ /\ pend.content = 0 /\ ctx.message.content # 0
               /\ ctx.message.status = "In_Progress"
               /\ d.now >= ctx.nextRetryTimeStampEpoch
        ctx1 == IF usePending THEN picked ELSE ctx
        log1 == IF usePending THEN taken.log ELSE d.log
        store1 == IF usePending
                  THEN [d.s_pendingMessageStore EXCEPT ![type] = NoMessage]
                  ELSE d.s_pendingMessageStore
        sent1 == Transport(log1, [ctx1 EXCEPT !.message.attempts = @ + 1], outcome)
    IN  IF shouldSend
        THEN [d EXCEPT !.s_messageProcessingContext[type] = sent1.ctx,
                       !.s_pendingMessageStore = store1,
                       !.log = sent1.log,
                       !.owed[type] = @ + sent1.owed]
        ELSE d

\* ProcessMessage (lines 372-465) for the context of type, at time d.now.
ProcessMessage(d, type, outcome) ==
    LET ctx == d.s_messageProcessingContext[type]
        pend == d.s_pendingMessageStore[type]
        waiting == /\ pend.content # 0 /\ ctx.message.content # 0
                   /\ ctx.message.status = "Waiting_For_Response"
        old == OnMessageProcessingCompleted(d.log, ctx.message, "Replaced")
        taken == SetMessageStatus(old.log, [pend EXCEPT !.attempts = 0], "In_Progress")
        picked == [message |-> taken.msg, retries |-> 0, nextRetryTimeStampEpoch |-> d.now]
        usePending == pend.content # 0 /\ ~waiting
        shouldSend ==
            \/ usePending
            \/ /\ pend.content = 0 /\ ctx.message.content # 0
               /\ ctx.message.status = "In_Progress"
               /\ d.now >= ctx.nextRetryTimeStampEpoch
        ctx1 == IF usePending THEN picked ELSE ctx
        log1 == IF usePending THEN taken.log ELSE d.log
        store1 == IF usePending
                  THEN [d.s_pendingMessageStore EXCEPT ![type] = NoMessage]
                  ELSE d.s_pendingMessageStore
        sent1 == Transport(log1, [ctx1 EXCEPT !.message.attempts = @ + 1], outcome)
    IN  IF shouldSend
        THEN [d EXCEPT !.s_messageProcessingContext[type] = sent1.ctx,
                       !.s_pendingMessageStore = store1,
                       !.log = sent1.log,
                       !.owed[type] = @ + sent1.owed]
        ELSE d

\* The entry of g_defaultHttpStatusRetryInfo that decides, from entry i on:
\* "max" (retries used up for the status), "retry" (a retry time is
\* calculated), or "fallback" (no entry calculated one).
RECURSIVE RetryDecision(_, _, _)
RetryDecision(i, http_status_code, retries) ==
    IF i > Len(g_defaultHttpStatusRetryInfo) THEN "fallback"
    ELSE LET info == g_defaultHttpStatusRetryInfo[i]
         IN  IF http_status_code >= info.httpStatusMin
                /\ http_status_code <= info.httpStatusMax
             THEN IF retries >= info.maxRetry THEN "max"
                  ELSE IF ~info.calc THEN RetryDecision(i + 1, http_status_code, retries)
                  ELSE "retry"
             ELSE RetryDecision(i + 1, http_status_code, retries)

\* What a responseCallback does when it is called: it returns false, returns
\* true, or returns true after it has set the context's next retry time.
ResponseCallbacks == {"false", "true", "retime"}

\* A response handler that retries whatever the status is.
DefaultIoTHubSendReportedStateCompletedCallback_Stubborn(d, type, http_status_code, cb, delay) ==
    LET ctx == d.s_messageProcessingContext[type]
        message == ctx.message
        r == SetMessageStatus(d.log, message, "In_Progress")
    IN  IF message.content = 0 THEN d
        ELSE [d EXCEPT !.s_messageProcessingContext[type] =
                           [message |-> r.msg, retries |-> ctx.retries + 1,
                            nextRetryTimeStampEpoch |-> d.now + delay],
                       !.log = r.log]

\* DefaultIoTHubSendReportedStateCompletedCallback (lines 209-355) on the
\* context of type.  delay is what the retry time calculation, or the
\* responseCallback that sets the time, adds to the current time.
DefaultIoTHubSendReportedStateCompletedCallback(d, type, http_status_code, cb, delay) ==
    LET ctx == d.s_messageProcessingContext[type]
        message == ctx.message
        called == message.responseCallback
        afterCallback == IF called /\ cb = "retime" THEN d.now + delay
                         ELSE ctx.nextRetryTimeStampEpoch
        \* read once the responseCallback has returned (line 261)
        previousRetryTimeStamp == afterCallback
        success == \/ called /\ cb = "false"
                   \/ http_status_code >= 200 /\ http_status_code < 300
        decision == RetryDecision(1, http_status_code, ctx.retries)
        status == IF success THEN "Success"
                  ELSE IF afterCallback # previousRetryTimeStamp THEN "In_Progress"
                  ELSE IF ctx.retries >= maxRetries THEN "Max_Retries_Reached"
                  ELSE IF decision = "max" THEN "Max_Retries_Reached"
                  ELSE "In_Progress"
        computed == ~success /\ afterCallback = previousRetryTimeStamp
                    /\ ctx.retries < maxRetries
        r == IF status = "In_Progress" THEN SetMessageStatus(d.log, message, status)
             ELSE OnMessageProcessingCompleted(d.log, message, status)
    IN  IF message.content = 0 THEN d
        ELSE [d EXCEPT
                 !.s_messageProcessingContext[type] =
                     [message |-> r.msg,
                      retries |-> IF computed /\ decision = "retry"
                                  THEN ctx.retries + 1 ELSE ctx.retries,
                      nextRetryTimeStampEpoch |->
                          IF computed /\ decision = "retry" THEN d.now + delay
                          ELSE IF computed /\ decision = "fallback"
                          THEN afterCallback + fallbackWaitTimeSec
                          ELSE afterCallback],
                 !.log = r.log]

\* ADUC_D2C_Messaging_Init (476-524): the first call zeroes the store and the
\* contexts.
ADUC_D2C_Messaging_Init ==
    /\ ~d2c.s_core_initialized
    /\ d2c' = [d2c EXCEPT !.s_core_initialized = TRUE,
                          !.s_pendingMessageStore = [t \in MsgTypes |-> NoMessage],
                          !.s_messageProcessingContext = [t \in MsgTypes |-> NoContext]]
    /\ UNCHANGED <<workers, ext, threads>>
    /\ UNCHANGED deviceVars

\* The messages of the store and of the contexts of the types from i on are
\* completed as Canceled.
RECURSIVE CancelFrom(_, _)
CancelFrom(d, i) ==
    IF i \notin MsgTypes THEN d
    ELSE LET p == OnMessageProcessingCompleted(d.log, d.s_pendingMessageStore[i],
                                               "Canceled")
             c == OnMessageProcessingCompleted(p.log,
                                               d.s_messageProcessingContext[i].message,
                                               "Canceled")
         IN  CancelFrom([d EXCEPT !.s_pendingMessageStore[i] = p.msg,
                                  !.s_messageProcessingContext[i].message = c.msg,
                                  !.log = c.log], i + 1)

\* ADUC_D2C_Messaging_Uninit (526-572)
ADUC_D2C_Messaging_Uninit ==
    /\ d2c.s_core_initialized
    /\ d2c' = [CancelFrom(d2c, 0) EXCEPT !.s_core_initialized = FALSE]
    /\ UNCHANGED <<workers, ext, threads>>
    /\ UNCHANGED deviceVars

\* A SendAsync that completes the message it replaces whatever callbacks it has.
ADUC_D2C_Message_SendAsync_Thorough(type, messageNull, allocOk, responseCallback, completedCallback, statusChangedCallback) ==
    LET pend == d2c.s_pendingMessageStore[type]
        replaced == OnMessageProcessingCompleted(d2c.log, pend, "Replaced")
        stored == SetMessageStatus(Append(replaced.log, NewLog),
                                   [NoMessage EXCEPT
                                       !.content = d2c.next,
                                       !.responseCallback = responseCallback,
                                       !.completedCallback = completedCallback,
                                       !.statusChangedCallback = statusChangedCallback],
                                   "Pending")
    IN
    /\ d2c.next <= MaxMsgs
    /\ ~messageNull /\ allocOk
    /\ d2c' = [d2c EXCEPT !.s_pendingMessageStore[type] = stored.msg,
                          !.log = stored.log,
                          !.next = @ + 1]
    /\ UNCHANGED <<workers, ext, threads>>
    /\ UNCHANGED deviceVars

\* ADUC_D2C_Message_SendAsync (574-643).  messageNull: message == NULL;
\* allocOk: mallocAndStrcpy_s returned 0.  A pending message of the type is
\* completed as Replaced if it has a completedCallback, and the store entry
\* is overwritten.
ADUC_D2C_Message_SendAsync(type, messageNull, allocOk, responseCallback, completedCallback, statusChangedCallback) ==
    LET pend == d2c.s_pendingMessageStore[type]
        replaced == IF pend.content # 0 /\ pend.completedCallback
                    THEN OnMessageProcessingCompleted(d2c.log, pend, "Replaced")
                    ELSE [msg |-> pend, log |-> d2c.log]
        stored == SetMessageStatus(Append(replaced.log, NewLog),
                                   [NoMessage EXCEPT
                                       !.content = d2c.next,
                                       !.responseCallback = responseCallback,
                                       !.completedCallback = completedCallback,
                                       !.statusChangedCallback = statusChangedCallback],
                                   "Pending")
    IN
    /\ d2c.next <= MaxMsgs
    /\ ~messageNull /\ allocOk
    /\ d2c' = [d2c EXCEPT !.s_pendingMessageStore[type] = stored.msg,
                          !.log = stored.log,
                          !.next = @ + 1]
    /\ UNCHANGED <<workers, ext, threads>>
    /\ UNCHANGED deviceVars

\* ADUC_D2C_Messaging_DoWork (364-370): ProcessMessage for every type in turn.
RECURSIVE DoWorkFrom(_, _, _)
DoWorkFrom(d, i, outcomes) ==
    IF i \notin MsgTypes THEN d
    ELSE DoWorkFrom(ProcessMessage(d, i, outcomes[i]), i + 1, outcomes)

ADUC_D2C_Messaging_DoWork(outcomes) ==
    /\ d2c.s_core_initialized
    /\ d2c' = DoWorkFrom(d2c, 0, outcomes)
    /\ d2c' # d2c
    /\ UNCHANGED <<workers, ext, threads>>
    /\ UNCHANGED deviceVars

\* The transport delivers a response it owes for the context of type.
ResponseReceived(type, http_status_code, cb, delay) ==
    /\ d2c.owed[type] > 0
    /\ d2c' = [DefaultIoTHubSendReportedStateCompletedCallback(
                   d2c, type, http_status_code, cb, delay)
               EXCEPT !.owed[type] = @ - 1]
    /\ UNCHANGED <<workers, ext, threads>>
    /\ UNCHANGED deviceVars

\* time() advances by a second.
Tick ==
    /\ d2c.now < MaxTime
    /\ d2c' = [d2c EXCEPT !.now = @ + 1]
    /\ UNCHANGED <<workers, ext, threads>>
    /\ UNCHANGED deviceVars

HttpStatuses == {-1, 200, 400, 413, 429}

NextD2C ==
    \/ ADUC_D2C_Messaging_Init
    \/ ADUC_D2C_Messaging_Uninit
    \/ \E type \in MsgTypes, responseCallback \in BOOLEAN, completedCallback \in BOOLEAN,
          statusChangedCallback \in BOOLEAN :
          ADUC_D2C_Message_SendAsync(type, FALSE, TRUE, responseCallback,
                                     completedCallback, statusChangedCallback)
    \/ \E outcomes \in [MsgTypes -> TransportOutcomes] : ADUC_D2C_Messaging_DoWork(outcomes)
    \/ \E type \in MsgTypes, http_status_code \in HttpStatuses, cb \in ResponseCallbacks,
          delay \in 1..MaxDelay :
          ResponseReceived(type, http_status_code, cb, delay)
    \/ Tick

SpecD2C == InitAgent /\ [][NextD2C]_vars

----------------------------------------------------------------------------
\* Properties of D2C messaging

TerminalStatuses == {"Success", "Failed", "Replaced", "Canceled", "Max_Retries_Reached"}

\* C36: under every interleaving of SendAsync, DoWork, responses and Uninit,
\* a submitted message reaches at most one terminal status, which is one of
\* Success, Failed, Replaced, Canceled and Max_Retries_Reached, its
\* completedCallback is invoked at most once, and it is never handed to the
\* transport after its terminal status.
C36_SingleTerminalOutcome ==
    \A id \in DOMAIN d2c.log :
       /\ Len(d2c.log[id].terminal) <= 1
       /\ \A k \in DOMAIN d2c.log[id].terminal : d2c.log[id].terminal[k] \in TerminalStatuses
       /\ d2c.log[id].completed <= Len(d2c.log[id].terminal)
       /\ ~d2c.log[id].late

\* A message was sent, answered with a retry status, sent again after the
\* retry time and completed as Success; its callback was invoked once.
C36_Witness ==
    \E id \in DOMAIN d2c.log :
       /\ d2c.log[id].terminal = <<"Success">>
       /\ d2c.log[id].completed = 1
       /\ d2c.log[id].handed = 2
       /\ ~d2c.s_core_initialized

\* A message is stored by ADUC_D2C_Message_SendAsync in this step.
Submitted(t) == d2c'.next = d2c.next + 1 /\ d2c'.s_pendingMessageStore[t].content = d2c.next

\* C37: the store holds at most one message per type, with status Pending;
\* when SendAsync stores a message for a type that has one pending, the
\* pending one has been completed with status Replaced: its content is
\* released, its completedCallback was invoked if it has one and its
\* statusChangedCallback was told Replaced if it has one, whatever callbacks
\* it was submitted with.
C37_PendingSlotReplacement ==
    /\ [](\A t \in MsgTypes :
             d2c.s_pendingMessageStore[t].content # 0
                => d2c.s_pendingMessageStore[t].status = "Pending")
    /\ [][\A t \in MsgTypes :
             Submitted(t) =>
                LET old == d2c.s_pendingMessageStore[t] IN
                /\ d2c'.s_pendingMessageStore[t].status = "Pending"
                /\ old.content # 0 =>
                      /\ d2c'.log[old.content].terminal = <<"Replaced">>
                      /\ d2c'.log[old.content].freed
                      /\ old.completedCallback => d2c'.log[old.content].completed = 1
                      /\ old.statusChangedCallback
                            => d2c'.log[old.content].notified = "Replaced"]_vars

\* The message in flight for type t is waiting for its response.
WaitingAt(d, t) ==
    /\ d.s_messageProcessingContext[t].message.content # 0
    /\ d.s_messageProcessingContext[t].message.status = "Waiting_For_Response"

\* C38: for every state the messaging reaches and every outcome of the
\* transport, a DoWork made in that state leaves a type whose message in
\* flight is waiting for its response as it is (not sent again, not replaced,
\* the pending message still in the store); for a type with a pending message
\* whose message in flight is absent or not waiting, it empties the store,
\* completes an old message in flight as Replaced, and hands the pending
\* message to the transport at once, with retries 0 and attempts counted
\* from 0.
C38_WaitForResponse ==
    d2c.s_core_initialized =>
       \A outcomes \in [MsgTypes -> TransportOutcomes], t \in MsgTypes :
          LET after == DoWorkFrom(d2c, 0, outcomes)
              ctx == d2c.s_messageProcessingContext[t]
              pend == d2c.s_pendingMessageStore[t]
              ctx2 == after.s_messageProcessingContext[t]
          IN  /\ WaitingAt(d2c, t) =>
                    /\ ctx2 = ctx
                    /\ after.s_pendingMessageStore[t] = pend
                    /\ after.log[ctx.message.content] = d2c.log[ctx.message.content]
              /\ pend.content # 0 /\ ~WaitingAt(d2c, t) =>
                    /\ after.s_pendingMessageStore[t] = NoMessage
                    /\ ctx.message.content # 0
                          => after.log[ctx.message.content].terminal = <<"Replaced">>
                    /\ after.log[pend.content].handed = 1
                    /\ ctx2.retries = 0
                    /\ IF outcomes[t] = "error"
                       THEN /\ ctx2.message = NoMessage
                            /\ after.log[pend.content].terminal = <<"Failed">>
                       ELSE /\ ctx2.message.content = pend.content
                            /\ ctx2.message.attempts = 1
                            /\ ctx2.message.status =
                                  IF outcomes[t] = "ok" THEN "Waiting_For_Response"
                                  ELSE "In_Progress"

\* A message that was sent twice is waiting for its response while a newer
\* message of its type is pending behind it.
C38_Witness ==
    \E t \in MsgTypes :
       /\ WaitingAt(d2c, t)
       /\ d2c.log[d2c.s_messageProcessingContext[t].message.content].handed = 2
       /\ d2c.s_pendingMessageStore[t].content # 0
       /\ d2c.s_core_initialized

\* The statuses a response is tried with.
ResponseStatuses == {-1, 0, 199, 200, 299, 300, 400, 401, 413, 429, 500, 503, 600}

\* The responseCallback of message, called with what it does (cb), returns
\* false / sets the retry time.
ReturnsFalse(message, cb) == message.responseCallback /\ cb = "false"
Retimes(message, cb) == message.responseCallback /\ cb = "retime"

\* The context of type t after a response, as far as the policy goes.
Completes(d, after, t, status) ==
    /\ after.s_messageProcessingContext[t].message = NoMessage
    /\ after.log[d.s_messageProcessingContext[t].message.content].terminal = <<status>>
    /\ after.s_messageProcessingContext[t].retries = d.s_messageProcessingContext[t].retries
Retries(d, after, t, delay) ==
    /\ after.s_messageProcessingContext[t].retries
          = d.s_messageProcessingContext[t].retries + 1
    /\ after.s_messageProcessingContext[t].nextRetryTimeStampEpoch = d.now + delay
    /\ after.s_messageProcessingContext[t].message
          = [d.s_messageProcessingContext[t].message EXCEPT !.status = "In_Progress"]
    /\ after.log[d.s_messageProcessingContext[t].message.content].terminal = <<>>

\* DoWork hands the message in flight of a type without pending message to
\* the transport exactly when it is In_Progress and its retry time has come.
ResentWhenDue(d, t) ==
    LET ctx == d.s_messageProcessingContext[t]
        id == ctx.message.content
    IN  id # 0 /\ d.s_pendingMessageStore[t].content = 0 =>
           \A outcomes \in [MsgTypes -> TransportOutcomes] :
              DoWorkFrom(d, 0, outcomes).log[id].handed =
                 IF ctx.message.status = "In_Progress"
                    /\ d.now >= ctx.nextRetryTimeStampEpoch
                 THEN d.log[id].handed + 1 ELSE d.log[id].handed

\* C39: a response to a message in flight completes it as Success
\* for a status 200..299 or a responseCallback that returns false; otherwise a
\* status 400 or 413 completes it as Max_Retries_Reached without a retry;
\* otherwise a non-negative status, with no responseCallback or one that
\* returns true and leaves the retry time alone, adds one to retries, sets the
\* retry time newly calculated and puts the message back to In_Progress;
\* DoWork sends the message again only once the time has reached its retry
\* time.
C39_ResponsePolicy ==
    \A t \in MsgTypes :
       /\ d2c.s_core_initialized => ResentWhenDue(d2c, t)
       /\ d2c.s_messageProcessingContext[t].message.content # 0 =>
             \A code \in ResponseStatuses, cb \in ResponseCallbacks, delay \in 1..MaxDelay :
                LET message == d2c.s_messageProcessingContext[t].message
                    after == DefaultIoTHubSendReportedStateCompletedCallback(
                                 d2c, t, code, cb, delay)
                IN  IF (code >= 200 /\ code <= 299) \/ ReturnsFalse(message, cb)
                    THEN Completes(d2c, after, t, "Success")
                    ELSE IF code \in {400, 413}
                    THEN Completes(d2c, after, t, "Max_Retries_Reached")
                    ELSE code >= 0 /\ ~Retimes(message, cb) =>
                            Retries(d2c, after, t, delay)

\* A message was answered with a status that asks for a retry and was sent a
\* second time when its retry time had come; another was answered with 400 or
\* 413 and completed as Max_Retries_Reached after one attempt.
C39_Witness ==
    /\ \E t \in MsgTypes :
          /\ WaitingAt(d2c, t)
          /\ d2c.s_messageProcessingContext[t].retries = 1
          /\ d2c.s_messageProcessingContext[t].message.attempts = 2
          /\ d2c.now >= d2c.s_messageProcessingContext[t].nextRetryTimeStampEpoch
    /\ \E id \in DOMAIN d2c.log :
          /\ d2c.log[id].terminal = <<"Max_Retries_Reached">>
          /\ d2c.log[id].handed = 1

(***************************************************************************)
(* D2C messaging: the mutexes, one step per lock statement                 *)
(*                                                                         *)
(* The statements between a lock and its unlock are checked as one step in *)
(* SpecD2C.  Here they are left out, except s_core_initialized, which      *)
(* decides what Init and Uninit do, and the construction and destruction   *)
(* of the contexts' mutexes.                                               *)
(***************************************************************************)

\* rtos::Mutex::lock waits until the mutex is free.  On a context mutex that
\* does not exist the call fails and Mbed OS stops the system.
CanLockStore(s) == s.store = 0
LockStore(s, th, pc_) == [s EXCEPT !.store = th, !.th[th].pc = pc_]
CanLockContext(s, t) == ~s.alive[t] \/ s.ctx[t] = 0
LockContext(s, th, t, pc_) ==
    IF ~s.alive[t] THEN [s EXCEPT !.halted = TRUE]
    ELSE [s EXCEPT !.ctx[t] = th, !.th[th].pc = pc_]

\* rtos::Mutex::unlock by the owner; by anyone else, or on a mutex that does
\* not exist, the call fails and Mbed OS stops the system.
UnlockStore(s, th, pc_) ==
    IF s.store # th THEN [s EXCEPT !.halted = TRUE]
    ELSE [s EXCEPT !.store = 0, !.th[th].pc = pc_]
UnlockContext(s, th, t, pc_) ==
    IF ~s.alive[t] \/ s.ctx[t] # th THEN [s EXCEPT !.halted = TRUE]
    ELSE [s EXCEPT !.ctx[t] = 0, !.th[th].pc = pc_]

\* The function returns to its caller.
Return(s, th) == IF s.halted THEN s ELSE [s EXCEPT !.th[th] = IdleThread]

\* Thread th calls a function of D2C messaging; t is the type of the context
\* a response is for.
Ops == {"Init", "DoWork", "SendAsync", "Uninit", "Response"}
Call(th, op, t) ==
    /\ ~threads.halted
    /\ threads.th[th].op = "idle"
    /\ op = "Response" \/ t = 0
    /\ threads' = [threads EXCEPT !.th[th] =
                      [op |-> op,
                       pc |-> CASE op = "SendAsync" -> "entry"
                                [] op = "Response" -> "lock_ctx"
                                [] OTHER -> "lock_store",
                       i |-> t]]
    /\ UNCHANGED <<workers, ext, d2c>>
    /\ UNCHANGED deviceVars

\* A ProcessMessage that gives the store mutex back before the context's.
ProcessMessageStep_StoreFirst(th) ==
    LET me == threads.th[th]
    IN  /\ ~threads.halted
        /\ me.op = "DoWork"
        /\ me.pc = "lock_store" => CanLockStore(threads)
        /\ me.pc = "lock_ctx" => CanLockContext(threads, me.i)
        /\ threads' =
              CASE me.pc = "lock_store" -> LockStore(threads, th, "lock_ctx")
                [] me.pc = "lock_ctx" -> LockContext(threads, th, me.i, "unlock_ctx")
                [] me.pc = "unlock_ctx" -> UnlockStore(threads, th, "unlock_store")
                [] me.pc = "unlock_store" ->
                      LET s == UnlockContext(threads, th, me.i, "lock_store")
                      IN  IF s.halted THEN s
                          ELSE IF me.i + 1 \in MsgTypes
                          THEN [s EXCEPT !.th[th].i = me.i + 1]
                          ELSE Return(s, th)
        /\ UNCHANGED <<workers, ext, d2c>>
        /\ UNCHANGED deviceVars

\* ADUC_D2C_Messaging_DoWork (364-370) calls ProcessMessage (372-465) for each
\* type in turn: lock store (381), lock context (382), unlock context (462),
\* unlock store (463).
ProcessMessageStep(th) ==
    LET me == threads.th[th]
    IN  /\ ~threads.halted
        /\ me.op = "DoWork"
        /\ me.pc = "lock_store" => CanLockStore(threads)
        /\ me.pc = "lock_ctx" => CanLockContext(threads, me.i)
        /\ threads' =
              CASE me.pc = "lock_store" -> LockStore(threads, th, "lock_ctx")
                [] me.pc = "lock_ctx" -> LockContext(threads, th, me.i, "unlock_ctx")
                [] me.pc = "unlock_ctx" -> UnlockContext(threads, th, me.i, "unlock_store")
                [] me.pc = "unlock_store" ->
                      LET s == UnlockStore(threads, th, "lock_store")
                      IN  IF s.halted THEN s
                          ELSE IF me.i + 1 \in MsgTypes
                          THEN [s EXCEPT !.th[th].i = me.i + 1]
                          ELSE Return(s, th)
        /\ UNCHANGED <<workers, ext, d2c>>
        /\ UNCHANGED deviceVars

\* ADUC_D2C_Messaging_Uninit (526-572): lock store (532); when initialized,
\* for each type lock the context (542), unlock it (558) and destroy its
\* mutex (559), then clear s_core_initialized (564); unlock store (570).
UninitStep(th) ==
    LET me == threads.th[th]
        last == me.i + 1 \notin MsgTypes
    IN  /\ ~threads.halted
        /\ me.op = "Uninit"
        /\ me.pc = "lock_store" => CanLockStore(threads)
        /\ me.pc = "lock_ctx" => CanLockContext(threads, me.i)
        /\ threads' =
              CASE me.pc = "lock_store" ->
                      LockStore(threads, th,
                           IF d2c.s_core_initialized THEN "lock_ctx" ELSE "unlock_store")
                [] me.pc = "lock_ctx" -> LockContext(threads, th, me.i, "unlock_ctx")
                [] me.pc = "unlock_ctx" -> UnlockContext(threads, th, me.i, "destroy")
                [] me.pc = "destroy" ->
                      [threads EXCEPT !.alive[me.i] = FALSE,
                                      !.ctx[me.i] = 0,
                                      !.th[th].i = IF last THEN 0 ELSE me.i + 1,
                                      !.th[th].pc = IF last THEN "unlock_store"
                                                    ELSE "lock_ctx"]
                [] me.pc = "unlock_store" ->
                      Return(UnlockStore(threads, th, "idle"), th)
        /\ d2c' = IF me.pc = "destroy" /\ last
                  THEN [d2c EXCEPT !.s_core_initialized = FALSE] ELSE d2c
        /\ UNCHANGED <<workers, ext>>
        /\ UNCHANGED deviceVars

\* ADUC_D2C_Messaging_Init (472-524): lock store (480); when not initialized,
\* construct the contexts' mutexes (505) and set s_core_initialized (508);
\* unlock store (521).
InitStep(th) ==
    LET me == threads.th[th]
        first == me.pc = "construct" /\ ~d2c.s_core_initialized
    IN  /\ ~threads.halted
        /\ me.op = "Init"
        /\ me.pc = "lock_store" => CanLockStore(threads)
        /\ threads' =
              CASE me.pc = "lock_store" -> LockStore(threads, th, "construct")
                [] me.pc = "construct" ->
                      IF first
                      THEN [threads EXCEPT !.alive = [t \in MsgTypes |-> TRUE],
                                           !.ctx = [t \in MsgTypes |-> 0],
                                           !.th[th].pc = "unlock_store"]
                      ELSE [threads EXCEPT !.th[th].pc = "unlock_store"]
                [] me.pc = "unlock_store" ->
                      Return(UnlockStore(threads, th, "idle"), th)
        /\ d2c' = IF first THEN [d2c EXCEPT !.s_core_initialized = TRUE] ELSE d2c
        /\ UNCHANGED <<workers, ext>>
        /\ UNCHANGED deviceVars

\* ADUC_D2C_Message_SendAsync (588-643): returns at once without a message
\* or without memory for its copy (597-607); otherwise lock store (612) and
\* unlock store (640).
SendAsyncStep(th, proceed) ==
    LET me == threads.th[th]
    IN  /\ ~threads.halted
        /\ me.op = "SendAsync"
        /\ me.pc = "lock_store" => CanLockStore(threads)
        /\ me.pc # "entry" => proceed
        /\ threads' =
              CASE me.pc = "entry" ->
                      IF proceed THEN [threads EXCEPT !.th[th].pc = "lock_store"]
                      ELSE Return(threads, th)
                [] me.pc = "lock_store" -> LockStore(threads, th, "unlock_store")
                [] me.pc = "unlock_store" ->
                      Return(UnlockStore(threads, th, "idle"), th)
        /\ UNCHANGED <<workers, ext, d2c>>
        /\ UNCHANGED deviceVars

\* DefaultIoTHubSendReportedStateCompletedCallback (224-355): lock the
\* context (233); every path goes to done, unlock the context (353).
ResponseStep(th) ==
    LET me == threads.th[th]
    IN  /\ ~threads.halted
        /\ me.op = "Response"
        /\ me.pc = "lock_ctx" => CanLockContext(threads, me.i)
        /\ threads' =
              CASE me.pc = "lock_ctx" -> LockContext(threads, th, me.i, "unlock_ctx")
                [] me.pc = "unlock_ctx" ->
                      Return(UnlockContext(threads, th, me.i, "idle"), th)
        /\ UNCHANGED <<workers, ext, d2c>>
        /\ UNCHANGED deviceVars

NextLocks ==
    \/ \E th \in Threads, op \in Ops, t \in MsgTypes : Call(th, op, t)
    \/ \E th \in Threads : ProcessMessageStep(th)
    \/ \E th \in Threads : UninitStep(th)
    \/ \E th \in Threads : InitStep(th)
    \/ \E th \in Threads, proceed \in BOOLEAN : SendAsyncStep(th, proceed)
    \/ \E th \in Threads : ResponseStep(th)

SpecLocks == InitAgent /\ [][NextLocks]_vars

\* Properties of the D2C mutexes
HoldsStore(th) == threads.store = th
HoldsContext(th, t) == threads.alive[t] /\ threads.ctx[t] = th

\* The thread whose mutex thread a is waiting for at a lock statement (0:
\* a is not waiting).
BlockedBy(a) ==
    LET me == threads.th[a]
    IN  IF me.pc = "lock_store" THEN threads.store
        ELSE IF me.pc = "lock_ctx" /\ threads.alive[me.i] THEN threads.ctx[me.i]
        ELSE 0

\* The thread k steps along the chain of waiting that starts at a.
RECURSIVE Chain(_, _)
Chain(a, k) ==
    IF k = 0 THEN a
    ELSE LET b == Chain(a, k - 1)
         IN  IF b = 0 THEN 0 ELSE BlockedBy(b)

\* Some threads wait for each other in a circle.
Deadlocked == \E a \in Threads, k \in 1..MaxThreads : Chain(a, k) = a

\* C40: a thread in DoWork or Uninit that holds a context's mutex holds the
\* store mutex too (it takes the store mutex first and gives it back last), a
\* thread in SendAsync holds no context's mutex and a thread in the response
\* callback does not hold the store mutex; no threads wait for each other's
\* mutexes in a circle; and a thread that has returned from its function
\* holds no mutex, whichever way it left.
C40_LockOrderNoDeadlock ==
    /\ \A th \in Threads :
          LET op == threads.th[th].op
          IN  /\ op \in {"DoWork", "Uninit"} =>
                    ((\E t \in MsgTypes : HoldsContext(th, t)) => HoldsStore(th))
              /\ op \in {"SendAsync", "Init"} =>
                    \A t \in MsgTypes : ~HoldsContext(th, t)
              /\ op = "Response" => ~HoldsStore(th)
              /\ op = "idle" =>
                    ~HoldsStore(th) /\ \A t \in MsgTypes : threads.ctx[t] # th
    /\ ~Deadlocked

\* A DoWork thread holds the store mutex and waits for a context's mutex that
\* a response callback holds, while an Uninit thread waits for the store
\* mutex.
C40_Witness ==
    /\ ~threads.halted
    /\ d2c.s_core_initialized
    /\ \E a, b, c \in Threads :
          /\ threads.th[a].op = "DoWork" /\ threads.th[a].pc = "lock_ctx"
          /\ HoldsStore(a)
          /\ threads.th[b].op = "Response"
          /\ HoldsContext(b, threads.th[a].i)
          /\ threads.th[c].op = "Uninit" /\ threads.th[c].pc = "lock_store"

=============================================================================
